---- MODULE Spec2Model ----
(***************************************************************************)
(* Titan trading terminal (React front end): chart data preparation,      *)
(* AI audit, market scan and the enhanced chat component, modelled as     *)
(* state machines.  JavaScript values are modelled as tagged records so   *)
(* that the conversions the code performs (Number(), new Date(), ||,      *)
(* typeof, comparison with coercion) are computed rather than assumed.    *)
(***************************************************************************)
EXTENDS Integers, Sequences, FiniteSets, TLC

(***************************************************************************)
(* JavaScript values.                                                      *)
(*   undef        undefined (also: a property that is absent)              *)
(*   null         null                                                     *)
(*   num  v       the number v (an integer that fits 32 bits)              *)
(*   huge         a number above 2^31-1 (1700000000000, a ms timestamp)    *)
(*   nan          NaN                                                      *)
(*   numstr v     the decimal string of v, e.g. "7"                        *)
(*   badstr v     a string that is neither a number nor a date ("n/a")     *)
(*   datestr v    the string 'YYYY-MM-DD' of day v since 1970-01-01        *)
(*   dtstr v      the string 'YYYY-MM-DDTHH:MM:SSZ' at v seconds of epoch  *)
(*   xdatestr     the expanded-year date string toISOString gives for a    *)
(*                date beyond year 9999 ('+055840-...')                    *)
(***************************************************************************)
J(t, v) == [t |-> t, v |-> v]
Undef == J("undef", 0)
Null == J("null", 0)
NaN == J("nan", 0)
Huge == J("huge", 0)
Num(n) == J("num", n)
NumStr(n) == J("numstr", n)
BadStr(n) == J("badstr", n)
DateStr(d) == J("datestr", d)
DateTimeStr(s) == J("dtstr", s)
XDateStr == J("xdatestr", 0)

StringTags == {"numstr", "badstr", "datestr", "dtstr", "xdatestr"}
NumberTags == {"num", "huge", "nan"}

SecondsPerDay == 86400
MaxTimestamp == 2147483647

\* typeof x
TypeOf(x) ==
    IF x.t \in StringTags THEN "string"
    ELSE IF x.t \in NumberTags THEN "number"
    ELSE IF x.t = "undef" THEN "undefined"
    ELSE "object"

\* Number(x)
ToNumber(x) ==
    CASE x.t = "undef" -> NaN
      [] x.t = "null" -> Num(0)
      [] x.t \in NumberTags -> x
      [] x.t = "numstr" -> Num(x.v)
      [] OTHER -> NaN

\* isNaN(x): true when Number(x) is NaN
IsNaN(x) == ToNumber(x).t = "nan"

\* the truthiness of x (all modelled strings are non-empty)
Truthy(x) ==
    CASE x.t \in {"undef", "null", "nan"} -> FALSE
      [] x.t = "num" -> x.v # 0
      [] OTHER -> TRUE

\* a || b
OrElse(a, b) == IF Truthy(a) THEN a ELSE b

\* x <= 0 and x > 2147483647 as JavaScript evaluates them (operands are
\* converted with Number(); a comparison with NaN is false)
LeZero(x) == ToNumber(x).t = "num" /\ ToNumber(x).v <= 0
GtMaxTimestamp(x) ==
    \/ ToNumber(x).t = "huge"
    \/ ToNumber(x).t = "num" /\ ToNumber(x).v > MaxTimestamp

\* x === 0 for a number x
IsZero(x) == x.t = "num" /\ x.v = 0

\* new Date(x).getTime() for a string or undefined x, in whole seconds
\* (date-only ISO strings are parsed as UTC midnight)
DateOf(x) ==
    CASE x.t = "datestr" -> Num(x.v * SecondsPerDay)
      [] x.t = "dtstr" -> Num(x.v)
      [] x.t = "xdatestr" -> Huge
      [] OTHER -> NaN

\* new Date(n * 1000).toISOString().split('T')[0] for a number n
IsoDateOf(n) ==
    IF n.t = "huge" THEN XDateStr ELSE DateStr(n.v \div SecondsPerDay)

\* a - b for numbers a and b, reduced to its sign: NaN, Num(-1), Num(0), Num(1)
SignSub(a, b) ==
    CASE a.t = "nan" \/ b.t = "nan" -> NaN
      [] a.t = "huge" /\ b.t = "huge" -> Num(0)
      [] a.t = "huge" -> Num(1)
      [] b.t = "huge" -> Num(-1)
      [] OTHER -> IF a.v < b.v THEN Num(-1)
                  ELSE IF a.v > b.v THEN Num(1) ELSE Num(0)

(***************************************************************************)
(* Chart data preparation (TitanChart, both component variants).           *)
(***************************************************************************)
IntradayIntervals == {"1m", "2m", "5m", "15m", "30m", "60m", "90m", "1h"}
IsIntradayInterval(interval) == interval \in IntradayIntervals

IndicatorFields ==
    {"ema_50", "ema_200", "rsi", "macd", "macd_signal", "macd_hist",
     "bb_upper", "bb_middle", "bb_lower"}
BarFields ==
    {"time", "open", "high", "low", "close", "volume"} \cup IndicatorFields

\* the value "return null" of the map callback
Dropped == [dropped |-> TRUE]

\* a cleaned bar: the fields the code sets, every other field undefined;
\* idx remembers the position of the source bar in the input
Point(idx, time, open, high, low, close) ==
    [f \in BarFields |->
        CASE f = "time" -> time
          [] f = "open" -> open
          [] f = "high" -> high
          [] f = "low" -> low
          [] f = "close" -> close
          [] OTHER -> Undef]
      @@ [idx |-> idx, dropped |-> FALSE]

\* if (d.f !== undefined && !isNaN(Number(d.f))) dataPoint.f = Number(d.f)
CopyNumeric(d, f) ==
    IF d[f] # Undef /\ ~IsNaN(d[f]) THEN ToNumber(d[f]) ELSE Undef

\* the time handling of the indicator variant
IndicatorTime(d, isIntraday) ==
    LET timeValue == d.time IN
    IF isIntraday
    THEN LET t1 ==
                 IF TypeOf(timeValue) = "string"
                 THEN IF DateOf(timeValue).t = "nan" THEN Dropped
                      ELSE DateOf(timeValue)
                 ELSE IF TypeOf(timeValue) = "number"
                 THEN IF LeZero(timeValue) \/ IsNaN(timeValue) THEN Dropped
                      ELSE timeValue
                 ELSE Dropped
         IN IF t1 = Dropped THEN Dropped
            ELSE IF LeZero(t1) \/ GtMaxTimestamp(t1) THEN Dropped
            ELSE t1
    ELSE IF TypeOf(timeValue) = "number"
         THEN IF LeZero(timeValue) \/ IsNaN(timeValue) THEN Dropped
              ELSE IsoDateOf(timeValue)
         ELSE IF TypeOf(timeValue) # "string" THEN Dropped
         ELSE timeValue

\* the map callback of the indicator variant
IndicatorPoint(d, idx, isIntraday) ==
    LET open == ToNumber(d.open)
        high == ToNumber(d.high)
        low == ToNumber(d.low)
        close == ToNumber(d.close)
        timeValue == IndicatorTime(d, isIntraday)
    IN IF IsNaN(open) \/ IsNaN(high) \/ IsNaN(low) \/ IsNaN(close)
       THEN Dropped
       ELSE IF timeValue = Dropped THEN Dropped
       ELSE [f \in IndicatorFields \cup {"volume"} |-> CopyNumeric(d, f)]
              @@ Point(idx, timeValue, open, high, low, close)

\* the time handling of the levels variant; only the lower-case field names
\* are present in the modelled input, so d.Date and d.date are undefined
LevelsTime(d, isIntraday) ==
    LET timeValue == OrElse(OrElse(d.time, Undef), Undef) IN
    IF isIntraday
    THEN LET t1 ==
                 IF TypeOf(timeValue) = "string"
                 THEN IF DateOf(timeValue).t = "nan" THEN Dropped
                      ELSE DateOf(timeValue)
                 ELSE timeValue
         IN IF t1 = Dropped THEN Dropped
            ELSE IF LeZero(t1) \/ GtMaxTimestamp(t1) THEN Dropped
            ELSE t1
    ELSE IF TypeOf(timeValue) = "number"
         THEN IsoDateOf(timeValue)
         ELSE timeValue

\* the map callback of the levels variant (d.Open, d.High, ... are absent)
LevelsPoint(d, idx, isIntraday) ==
    LET open == ToNumber(OrElse(OrElse(Undef, d.open), Num(0)))
        high == ToNumber(OrElse(OrElse(Undef, d.high), Num(0)))
        low == ToNumber(OrElse(OrElse(Undef, d.low), Num(0)))
        close == ToNumber(OrElse(OrElse(Undef, d.close), Num(0)))
        timeValue == LevelsTime(d, isIntraday)
    IN IF \/ IsNaN(open) \/ IsNaN(high) \/ IsNaN(low) \/ IsNaN(close)
          \/ IsZero(open) \/ IsZero(high) \/ IsZero(low) \/ IsZero(close)
       THEN Dropped
       ELSE IF timeValue = Dropped THEN Dropped
       ELSE Point(idx, timeValue, open, high, low, close)

\* .filter(d => d !== null)
RECURSIVE NotNull(_)
NotNull(s) ==
    IF s = <<>> THEN <<>>
    ELSE IF Head(s) = Dropped THEN NotNull(Tail(s))
    ELSE <<Head(s)>> \o NotNull(Tail(s))

\* the sort comparator: a.time - b.time for intraday data,
\* new Date(a.time) - new Date(b.time) otherwise
CompareTime(a, b, isIntraday) ==
    IF isIntraday
    THEN SignSub(ToNumber(a.time), ToNumber(b.time))
    ELSE SignSub(DateOf(a.time), DateOf(b.time))

\* what Array.prototype.sort makes of a comparator result: NaN counts as 0
SortOrder(a, b, isIntraday) ==
    IF CompareTime(a, b, isIntraday).t = "nan" THEN 0
    ELSE CompareTime(a, b, isIntraday).v

\* ECMAScript's "consistent comparator" for the elements of s
ConsistentComparator(s, isIntraday) ==
    \A i, j, k \in 1..Len(s) :
        LET c(x, y) == SortOrder(s[x], s[y], isIntraday) IN
        /\ (c(i, j) = 0 /\ c(j, k) = 0) => c(i, k) = 0
        /\ (c(i, j) < 0 /\ c(j, k) < 0) => c(i, k) < 0
        /\ (c(i, j) > 0 /\ c(j, k) > 0) => c(i, k) > 0
        /\ (c(i, j) < 0) <=> (c(j, i) > 0)

\* insert x behind every element that does not sort after it
RECURSIVE InsertSorted(_, _, _)
InsertSorted(s, x, isIntraday) ==
    IF s = <<>> THEN <<x>>
    ELSE IF SortOrder(x, s[Len(s)], isIntraday) >= 0 THEN Append(s, x)
    ELSE Append(InsertSorted(SubSeq(s, 1, Len(s) - 1), x, isIntraday), s[Len(s)])

RECURSIVE StableSort(_, _)
StableSort(s, isIntraday) ==
    IF s = <<>> THEN <<>>
    ELSE InsertSorted(StableSort(SubSeq(s, 1, Len(s) - 1), isIntraday),
                      s[Len(s)], isIntraday)

Reorderings(s) ==
    {[i \in 1..Len(s) |-> s[p[i]]] :
        p \in {q \in [1..Len(s) -> 1..Len(s)] :
                  \A i, j \in 1..Len(s) : q[i] = q[j] => i = j}}

\* the results Array.prototype.sort may give: the stable sort for a
\* consistent comparator, an implementation-defined order otherwise
SortResults(s, isIntraday) ==
    IF ConsistentComparator(s, isIntraday)
    THEN {StableSort(s, isIntraday)}
    ELSE Reorderings(s)

\* self.findIndex(t => t.time === item.time)
FindIndexOfTime(s, time) ==
    CHOOSE i \in 1..Len(s) :
        /\ s[i].time = time
        /\ \A j \in 1..(i - 1) : s[j].time # time

\* .filter((item, index, self) => index === self.findIndex(...));
\* NaN is never a time here, so === is equality of the values
RECURSIVE DedupeFrom(_, _)
DedupeFrom(s, index) ==
    IF index > Len(s) THEN <<>>
    ELSE IF index = FindIndexOfTime(s, s[index].time)
    THEN <<s[index]>> \o DedupeFrom(s, index + 1)
    ELSE DedupeFrom(s, index + 1)

Dedupe(s) == DedupeFrom(s, 1)

MapIndicator(data, isIntraday) ==
    [i \in 1..Len(data) |-> IndicatorPoint(data[i], i, isIntraday)]
MapLevels(data, isIntraday) ==
    [i \in 1..Len(data) |-> LevelsPoint(data[i], i, isIntraday)]

\* the values cleanData can take for the given props
CleanDataIndicator(data, interval) ==
    {Dedupe(s) : s \in SortResults(NotNull(MapIndicator(data,
                        IsIntradayInterval(interval))),
                     IsIntradayInterval(interval))}
CleanDataLevels(data, interval) ==
    {Dedupe(s) : s \in SortResults(NotNull(MapLevels(data,
                        IsIntradayInterval(interval))),
                     IsIntradayInterval(interval))}

\* an indicator line series: the cleaned bars that carry the field
RECURSIVE SeriesOf(_, _)
SeriesOf(clean, f) ==
    IF clean = <<>> THEN <<>>
    ELSE IF Head(clean)[f] # Undef
    THEN <<[time |-> Head(clean).time, value |-> Head(clean)[f],
            idx |-> Head(clean).idx]>> \o SeriesOf(Tail(clean), f)
    ELSE SeriesOf(Tail(clean), f)

\* the RSI series additionally requires 0 <= rsi <= 100
RECURSIVE RsiSeries(_)
RsiSeries(clean) ==
    IF clean = <<>> THEN <<>>
    ELSE IF /\ Head(clean).rsi # Undef
            /\ Head(clean).rsi.t = "num"
            /\ Head(clean).rsi.v >= 0 /\ Head(clean).rsi.v <= 100
    THEN <<[time |-> Head(clean).time, value |-> Head(clean).rsi,
            idx |-> Head(clean).idx]>> \o RsiSeries(Tail(clean))
    ELSE RsiSeries(Tail(clean))

(***************************************************************************)
(* Inputs of the chart data preparation.                                   *)
(***************************************************************************)
MaxBars == 3
MaxSortBars == 4

\* a raw bar of the chart endpoint; ind is the value of every indicator
\* field except rsi
RawBar(time, open, high, low, close, ind, rsi) ==
    [f \in BarFields |->
        CASE f = "time" -> time
          [] f = "open" -> open
          [] f = "high" -> high
          [] f = "low" -> low
          [] f = "close" -> close
          [] f = "volume" -> Num(10)
          [] f = "rsi" -> rsi
          [] OTHER -> ind]

\* well-formed prices, the time in every accepted representation; two of
\* the times come twice, with a different close
TimeBars ==
    {RawBar(t, Num(1), Num(2), Num(1), Num(1), Undef, Undef) :
        t \in {Num(0), Num(SecondsPerDay), Num(SecondsPerDay + 60), Huge,
               DateStr(1), DateTimeStr(SecondsPerDay), BadStr(1), Undef}}
    \cup {RawBar(t, Num(1), Num(2), Num(1), Num(2), Undef, Undef) :
        t \in {Num(SecondsPerDay), DateStr(1)}}

\* a well-formed time, one price field malformed
PriceBars ==
    {RawBar(Num(2 * SecondsPerDay), o, Num(2), Num(1), Num(1), Undef, Undef) :
        o \in {Num(0), Null, BadStr(1)}}
    \cup {RawBar(Num(2 * SecondsPerDay), Num(1), Num(2), Undef, Num(1),
                 Undef, Undef),
          RawBar(Num(2 * SecondsPerDay), Num(1), Num(2), Num(1), Num(0),
                 Undef, Undef)}

\* a well-formed bar, the indicator fields in every shape
IndicatorBars ==
    {RawBar(Num(3 * SecondsPerDay), Num(1), Num(2), Num(1), Num(1),
            Null, Null),
     RawBar(Num(3 * SecondsPerDay), Num(1), Num(2), Num(1), Num(1),
            Num(5), Num(60)),
     RawBar(Num(3 * SecondsPerDay), Num(1), Num(2), Num(1), Num(1),
            NumStr(7), Num(150)),
     RawBar(Num(3 * SecondsPerDay), Num(1), Num(2), Num(1), Num(1),
            BadStr(1), Undef)}

RawBars == TimeBars \cup PriceBars \cup IndicatorBars

\* the bars of the sort and de-duplication check: two bars of one day that
\* differ in their close, another day, and a time that is no date
SortBars ==
    {RawBar(t, Num(1), Num(2), Num(1), c, Undef, Undef) :
        t \in {DateStr(1), DateStr(2), BadStr(1), Num(SecondsPerDay)},
        c \in {Num(1), Num(2)}}

ChartIntervals == {"5m", "1d"}

VARIABLES chartVariant, chartInterval, chartData, cleanData

\* the charts the component created (each with the props it was built from
\* and whether remove() was called on it), the chartInstance ref (0: null,
\* else a position in charts), the initializeChart callbacks that wait in
\* the timer queue with the props of their render, whether the last run of
\* the effect returned a cleanup, and whether the component is mounted
VARIABLES charts, chartInstance, initTimers, chartCleanup, chartMounted

lifeVars == <<charts, chartInstance, initTimers, chartCleanup, chartMounted>>

chartVars == <<chartVariant, chartInterval, chartData, cleanData, lifeVars>>

\* the effect that builds the chart: the indicator variant, the levels
\* variant, and the earlier draft of the levels variant
ChartVariants == {"indicator", "levels", "draft"}

\* createChart(container, ...), with the props its series are filled from
NewChart(data, interval) ==
    [data |-> data, interval |-> interval, removed |-> FALSE]

\* if (chartInstance.current) { chartInstance.current.remove(); ... }
RemoveChart(cs, ref) ==
    IF ref # 0 THEN [cs EXCEPT ![ref].removed = TRUE] ELSE cs

\* the refs after the cleanup that the last run of the effect returned, if
\* it returned one
AfterCleanup ==
    IF chartCleanup
    THEN [charts |-> RemoveChart(charts, chartInstance), ref |-> 0]
    ELSE [charts |-> charts, ref |-> chartInstance]

\* the levels variant's test of chartInstance.current
InstanceGuard(ref) == ref # 0

\* the body of the effect, run with the props of a render on the refs c
Effect(data, interval, c) ==
    CASE chartVariant = "indicator" ->
           [charts |-> Append(RemoveChart(c.charts, c.ref),
                              NewChart(data, interval)),
            ref |-> Len(c.charts) + 1,
            timers |-> initTimers,
            cleanup |-> TRUE]
      [] chartVariant = "levels" ->
           IF data = <<>> \/ InstanceGuard(c.ref)
           THEN [charts |-> c.charts, ref |-> c.ref,
                 timers |-> initTimers, cleanup |-> FALSE]
           ELSE [charts |-> c.charts, ref |-> c.ref,
                 timers |-> Append(initTimers,
                                   [data |-> data, interval |-> interval]),
                 cleanup |-> TRUE]
      [] chartVariant = "draft" ->
           IF data = <<>>
           THEN [charts |-> c.charts, ref |-> c.ref,
                 timers |-> initTimers, cleanup |-> FALSE]
           ELSE [charts |-> RemoveChart(c.charts, c.ref), ref |-> 0,
                 timers |-> Append(initTimers,
                                   [data |-> data, interval |-> interval]),
                 cleanup |-> TRUE]

(***************************************************************************)
(* The App component: market scan, stock selection, chart data requests    *)
(* and the AI audit.  appVariant tells the two versions of the component   *)
(* apart: "bulk" awaits one /api/bulk_scan response (App.jsx), "stream"    *)
(* listens to the /api/bulk_scan_stream event stream.                      *)
(***************************************************************************)
VARIABLES appVariant, stocks, selectedStock, loading, scanStatus,
          scanProgress, aiVerdict, aiLoading, showAudit, timeframe,
          chartLoading, chartReqs, auditReq, auditDone, scanTimers,
          scanConn, scanChan, srvScan

appVars == <<appVariant, stocks, selectedStock, loading, scanStatus,
             scanProgress, aiVerdict, aiLoading, showAudit, timeframe,
             chartLoading, chartReqs, auditReq, auditDone, scanTimers,
             scanConn, scanChan, srvScan>>

(***************************************************************************)
(* The enhanced TitanChat component: its state, the calls of handleSend    *)
(* (chatReqs) and the scheduled ones (sendTimers), the two localStorage    *)
(* areas it writes, and the clock in days.  chatLoading is the             *)
(* component's loading state.                                              *)
(***************************************************************************)
VARIABLES chatSymbol, messages, inputText, chatLoading, streamingText,
          inputHistory, abortControllerRef, chatReqs, sendTimers,
          chatStore, inputStore, now

\* the keyboard state of the input: the position in the input history
\* (-1: none) and the auto-complete dropdown
VARIABLES historyIndex, suggestions, showSuggestions, selectedSuggestion

keyVars == <<historyIndex, suggestions, showSuggestions, selectedSuggestion>>

chatVars == <<chatSymbol, messages, inputText, chatLoading, streamingText,
              inputHistory, abortControllerRef, chatReqs, sendTimers,
              chatStore, inputStore, now, keyVars>>

KeysIdle ==
    /\ historyIndex = 0 - 1
    /\ suggestions = <<>>
    /\ showSuggestions = FALSE
    /\ selectedSuggestion = 0

\* the Signal Evaluator of the scan: the series of indicator frames it is
\* given and the decision it returned
VARIABLES frames, decision

sigVars == <<frames, decision>>

\* the chat's message menu (0: none is open, else the row of the displayed
\* list it is open at), its search box, and the feedback items of
\* localStorage (the keys titan_feedback_<symbol>_<index>)
VARIABLES messageMenuOpen, searchQuery, feedbackStore

menuVars == <<messageMenuOpen, searchQuery, feedbackStore>>

MenuIdle ==
    /\ messageMenuOpen = 0
    /\ searchQuery = <<>>
    /\ feedbackStore = {}

vars == <<chartVars, appVars, chatVars, sigVars, menuVars>>

NoDecision == [made |-> FALSE, match |-> FALSE]

SignalIdle ==
    /\ frames = <<>>
    /\ decision = NoDecision

\* the refs after the first render, which has no data
LifeStart ==
    /\ chartMounted = TRUE
    /\ initTimers = <<>>
    /\ charts = IF chartVariant = "indicator"
                THEN <<NewChart(<<>>, chartInterval)>>
                ELSE <<>>
    /\ chartInstance = Len(charts)
    /\ chartCleanup = (chartVariant = "indicator")

ChartIdle ==
    /\ chartVariant = "indicator"
    /\ chartInterval = "1d"
    /\ chartData = <<>>
    /\ cleanData = <<>>
    /\ LifeStart

ChartStart ==
    /\ chartVariant \in {"indicator", "levels"}
    /\ chartInterval \in ChartIntervals
    /\ chartData = <<>>
    /\ cleanData = <<>>
    /\ LifeStart

\* the data prop grows by one bar and the effect of the indicator variant
\* rebuilds the chart from it
DataChangeIndicator(bars, maxLen) ==
    /\ chartVariant = "indicator"
    /\ Len(chartData) < maxLen
    /\ \E d \in bars :
          /\ chartData' = Append(chartData, d)
          /\ cleanData' \in CleanDataIndicator(chartData', chartInterval)
    /\ LET e == Effect(chartData', chartInterval, AfterCleanup)
       IN /\ charts' = e.charts
          /\ chartInstance' = e.ref
          /\ chartCleanup' = e.cleanup
    /\ UNCHANGED <<chartVariant, chartInterval, initTimers, chartMounted,
                   appVars, chatVars, sigVars, menuVars>>

\* the same for the levels variant, whose deferred initializeChart runs
\* before anything else happens
DataChangeLevels(bars, maxLen) ==
    /\ chartVariant = "levels"
    /\ initTimers = <<>>
    /\ AfterCleanup.ref = 0
    /\ Len(chartData) < maxLen
    /\ \E d \in bars :
          /\ chartData' = Append(chartData, d)
          /\ cleanData' \in CleanDataLevels(chartData', chartInterval)
    /\ charts' = Append(AfterCleanup.charts,
                        NewChart(chartData', chartInterval))
    /\ chartInstance' = Len(charts')
    /\ chartCleanup' = TRUE
    /\ UNCHANGED <<chartVariant, chartInterval, initTimers, chartMounted,
                   appVars, chatVars, sigVars, menuVars>>

PrepNext ==
    \/ DataChangeIndicator(RawBars, MaxBars)
    \/ DataChangeLevels(RawBars, MaxBars)

SortNext ==
    \/ DataChangeIndicator(SortBars, MaxSortBars)
    \/ DataChangeLevels(SortBars, MaxSortBars)

(***************************************************************************)
(* TitanChart: the life of the chart instance.                             *)
(***************************************************************************)
MaxLifeBars == 2
MaxCharts == 4

LifeBar ==
    RawBar(Num(3 * SecondsPerDay), Num(1), Num(2), Num(1), Num(1),
           Num(5), Num(60))

\* the arrays the data prop takes
LifeData == {[i \in 1..n |-> LifeBar] : n \in 0..MaxLifeBars}

\* a render with a new data array or another interval: the cleanup of the
\* last run of the effect, then the effect
PropsChange(datas, intervals, maxCharts) ==
    /\ chartMounted
    /\ Len(charts) + Len(initTimers) < maxCharts
    /\ \E data \in datas,
          interval \in intervals :
         /\ chartData' = data
         /\ chartInterval' = interval
         /\ LET e == Effect(data, interval, AfterCleanup)
            IN /\ charts' = e.charts
               /\ chartInstance' = e.ref
               /\ initTimers' = e.timers
               /\ chartCleanup' = e.cleanup
         /\ cleanData' \in IF chartVariant = "indicator"
                           THEN CleanDataIndicator(data, interval)
                           ELSE {cleanData}
    /\ UNCHANGED <<chartVariant, chartMounted, appVars, chatVars, sigVars,
                   menuVars>>

\* chartContainerRef.current is set: the indicator variant always renders
\* the container, the others render it when there is data
ContainerAttached ==
    /\ chartMounted
    /\ chartVariant = "indicator" \/ chartData # <<>>

\* the timer of an initializeChart fires
InitializeChart ==
    /\ initTimers # <<>>
    /\ initTimers' = Tail(initTimers)
    /\ LET t == Head(initTimers)
       IN IF ~ContainerAttached
             \/ (chartVariant = "levels" /\ InstanceGuard(chartInstance))
          THEN UNCHANGED <<charts, chartInstance, cleanData>>
          ELSE /\ charts' = Append(charts, NewChart(t.data, t.interval))
               /\ chartInstance' = Len(charts')
               /\ cleanData' \in CleanDataLevels(t.data, t.interval)
    /\ UNCHANGED <<chartVariant, chartInterval, chartData, chartCleanup,
                   chartMounted, appVars, chatVars, sigVars, menuVars>>

\* the component unmounts: the container ref is detached and the cleanup of
\* the last run of the effect runs
Unmount ==
    /\ chartMounted
    /\ chartMounted' = FALSE
    /\ charts' = AfterCleanup.charts
    /\ chartInstance' = AfterCleanup.ref
    /\ chartCleanup' = FALSE
    /\ UNCHANGED <<chartVariant, chartInterval, chartData, cleanData,
                   initTimers, appVars, chatVars, sigVars, menuVars>>

LifeMount ==
    /\ chartVariant \in ChartVariants
    /\ chartInterval \in ChartIntervals
    /\ chartData = <<>>
    /\ cleanData = <<>>
    /\ LifeStart

LifeNext ==
    \/ PropsChange(LifeData, ChartIntervals, MaxCharts)
    \/ InitializeChart
    \/ Unmount

(***************************************************************************)
(* App: values.                                                            *)
(***************************************************************************)
Watchlist == <<"A.NS", "B.NS">>
Timeframes == {"1d", "5m"}
MaxChartReqs == 2
MaxScanTimers == 2

Range(seq) == {seq[i] : i \in 1..Len(seq)}

\* selectedStock: null, or an object; symbol is "undefined" when the
\* object has no symbol property
NoStock ==
    [kind |-> "null", symbol |-> "-", chart_data |-> "-",
     current_timeframe |-> "-"]
StockObj(sym) ==
    [kind |-> "obj", symbol |-> sym, chart_data |-> "none",
     current_timeframe |-> "none"]

\* prev => ({...prev, chart_data: res.data.data, current_timeframe: interval})
WithChartData(prev, data, interval) ==
    [kind |-> "obj",
     symbol |-> IF prev.kind = "null" THEN "undefined" ELSE prev.symbol,
     chart_data |-> data,
     current_timeframe |-> interval]

\* selectedStock?.symbol
SymbolOf(stock) == IF stock.kind = "null" THEN "undefined" ELSE stock.symbol

\* the header renders selectedStock.symbol.replace(...) for a non-null
\* selectedStock: without a symbol the render throws and the tree unmounts
RenderThrows == selectedStock.kind = "obj" /\ selectedStock.symbol = "undefined"
AppAlive == ~RenderThrows

Status(tag, a, b) == [s |-> tag, a |-> a, b |-> b]
NoVerdict == [verdict |-> "null", reason |-> "-", sym |-> "-"]
NoRequest == [sym |-> "-"]

\* a catch block that only logs the error
AuditCatchLogsOnly(sym, reason) == NoVerdict

\* the verdict object of the catch block
AuditCatch(sym, reason) ==
    [verdict |-> "ERROR", reason |-> reason, sym |-> sym]

\* the verdict object set when res.data is empty
AuditNoData(sym) ==
    [verdict |-> "ERROR", reason |-> "No data received from server",
     sym |-> sym]

Event(type, sym, scanned, total, gems_found) ==
    [type |-> type, sym |-> sym, scanned |-> scanned, total |-> total,
     gems_found |-> gems_found, gems |-> <<>>]
BulkResponse(gems) ==
    [type |-> "response", sym |-> "-", scanned |-> 0, total |-> 0,
     gems_found |-> Len(gems), gems |-> gems]

NoProgress ==
    [current |-> "", scanned |-> 0, total |-> 0, progress |-> 0,
     gems_found |-> 0]
SrvIdle == [active |-> FALSE, pos |-> 0, gems |-> <<>>, failed |-> <<>>]

AppIdle ==
    /\ appVariant = "bulk"
    /\ stocks = <<>>
    /\ selectedStock = NoStock
    /\ loading = FALSE
    /\ scanStatus = Status("", 0, 0)
    /\ scanProgress = NoProgress
    /\ aiVerdict = NoVerdict
    /\ aiLoading = FALSE
    /\ showAudit = FALSE
    /\ timeframe = "1d"
    /\ chartLoading = FALSE
    /\ chartReqs = <<>>
    /\ auditReq = NoRequest
    /\ auditDone = "none"
    /\ scanTimers = <<>>
    /\ scanConn = "none"
    /\ scanChan = <<>>
    /\ srvScan = SrvIdle

AppStart ==
    /\ appVariant \in {"bulk", "stream"}
    /\ stocks = <<>>
    /\ selectedStock = NoStock
    /\ loading = FALSE
    /\ scanStatus = Status("", 0, 0)
    /\ scanProgress = NoProgress
    /\ aiVerdict = NoVerdict
    /\ aiLoading = FALSE
    /\ showAudit = FALSE
    /\ timeframe = "1d"
    /\ chartLoading = FALSE
    /\ chartReqs = <<>>
    /\ auditReq = NoRequest
    /\ auditDone = "none"
    /\ scanTimers = <<>>
    /\ scanConn = "none"
    /\ scanChan = <<>>
    /\ srvScan = SrvIdle

scanVars == <<loading, scanStatus, scanProgress, scanTimers, scanConn,
              scanChan, srvScan>>
auditVars == <<aiLoading, auditReq, auditDone>>

(***************************************************************************)
(* App: chart data requests.                                               *)
(***************************************************************************)
\* the requests fetchChartData(symbol, interval) adds: none for a falsy
\* symbol
FetchChartData(reqs, symbol, interval) ==
    IF symbol = "undefined" THEN reqs
    ELSE Append(reqs, [sym |-> symbol, interval |-> interval])

RemoveAt(seq, i) == SubSeq(seq, 1, i - 1) \o SubSeq(seq, i + 1, Len(seq))

\* a click on a row of the stock list
HandleStockClick ==
    /\ AppAlive
    /\ \E i \in 1..Len(stocks) :
         LET stock == StockObj(stocks[i])
             clicked == FetchChartData(chartReqs, stock.symbol, timeframe)
             \* part_002: the effect on [timeframe, selectedStock?.symbol]
             \* fetches again when the selected symbol changed
             after == IF /\ appVariant = "stream"
                         /\ SymbolOf(selectedStock) # stock.symbol
                      THEN FetchChartData(clicked, stock.symbol, timeframe)
                      ELSE clicked
         IN /\ Len(after) <= MaxChartReqs
            /\ selectedStock' = stock
            /\ chartReqs' = after
            /\ chartLoading' = TRUE
    /\ aiVerdict' = NoVerdict
    /\ showAudit' = FALSE
    /\ UNCHANGED <<appVariant, stocks, timeframe, scanVars, auditVars,
                   chartVars, sigVars, menuVars,
                   chatVars>>

\* the timeframe selector (rendered while a stock is selected)
SetTimeframe ==
    /\ AppAlive
    /\ selectedStock.kind = "obj"
    /\ Len(chartReqs) < MaxChartReqs
    /\ \E tf \in Timeframes \ {timeframe} :
         /\ timeframe' = tf
         /\ chartReqs' = FetchChartData(chartReqs, selectedStock.symbol, tf)
    /\ chartLoading' = TRUE
    /\ UNCHANGED <<appVariant, stocks, selectedStock, aiVerdict, showAudit,
                   scanVars, auditVars, chartVars, sigVars, menuVars,
                   chatVars>>

\* a chart request completes: with data, without data, or with an error
ChartResponse ==
    /\ AppAlive
    /\ \E i \in 1..Len(chartReqs), outcome \in {"data", "nodata", "error"} :
         /\ chartReqs' = RemoveAt(chartReqs, i)
         /\ selectedStock' =
              IF outcome = "data"
              THEN WithChartData(selectedStock,
                                 [sym |-> chartReqs[i].sym,
                                  interval |-> chartReqs[i].interval],
                                 chartReqs[i].interval)
              ELSE selectedStock
    /\ chartLoading' = FALSE
    /\ UNCHANGED <<appVariant, stocks, aiVerdict, showAudit, timeframe,
                   scanVars, auditVars, chartVars, sigVars, menuVars,
                   chatVars>>

(***************************************************************************)
(* App: AI audit.                                                          *)
(***************************************************************************)
\* the AI AUDIT button (rendered while a stock is selected, disabled while
\* aiLoading)
AskGemini ==
    /\ AppAlive
    /\ selectedStock.kind = "obj"
    /\ ~aiLoading
    /\ aiLoading' = TRUE
    /\ aiVerdict' = NoVerdict
    /\ showAudit' = FALSE
    /\ auditReq' = [sym |-> selectedStock.symbol]
    /\ auditDone' = "none"
    /\ UNCHANGED <<appVariant, stocks, selectedStock, timeframe,
                   chartLoading, chartReqs, scanVars, chartVars, sigVars, menuVars,
                   chatVars>>

\* the audit request returns a verdict object
AuditSucceeds ==
    /\ AppAlive
    /\ auditReq # NoRequest
    /\ aiVerdict' = [verdict |-> "STRONG BUY", reason |-> "server",
                     sym |-> auditReq.sym]
    /\ showAudit' = TRUE
    /\ aiLoading' = FALSE
    /\ auditReq' = NoRequest
    /\ auditDone' = "ok"
    /\ UNCHANGED <<appVariant, stocks, selectedStock, timeframe,
                   chartLoading, chartReqs, scanVars, chartVars, sigVars, menuVars,
                   chatVars>>

\* the audit request returns a response without a body
AuditEmpty ==
    /\ AppAlive
    /\ auditReq # NoRequest
    /\ aiVerdict' = AuditNoData(auditReq.sym)
    /\ showAudit' = TRUE
    /\ aiLoading' = FALSE
    /\ auditReq' = NoRequest
    /\ auditDone' = "nobody"
    /\ UNCHANGED <<appVariant, stocks, selectedStock, timeframe,
                   chartLoading, chartReqs, scanVars, chartVars, sigVars, menuVars,
                   chatVars>>

\* the audit request fails: an error response (with or without a reason in
\* its body) or no connection
AuditFails ==
    /\ AppAlive
    /\ auditReq # NoRequest
    /\ \E reason \in {"server", "Could not connect to Gemini AI"} :
         aiVerdict' = AuditCatch(auditReq.sym, reason)
    /\ auditDone' = "error"
    /\ showAudit' = TRUE
    /\ aiLoading' = FALSE
    /\ auditReq' = NoRequest
    /\ UNCHANGED <<appVariant, stocks, selectedStock, timeframe,
                   chartLoading, chartReqs, scanVars, chartVars, sigVars, menuVars,
                   chatVars>>

\* the SHOW/HIDE button (rendered while aiVerdict is set)
ToggleAudit ==
    /\ AppAlive
    /\ selectedStock.kind = "obj"
    /\ aiVerdict # NoVerdict
    /\ showAudit' = ~showAudit
    /\ UNCHANGED <<appVariant, stocks, selectedStock, aiVerdict, timeframe,
                   chartLoading, chartReqs, scanVars, auditVars, chartVars, sigVars, menuVars,
                   chatVars>>

(***************************************************************************)
(* The scan back end, as far as the client can observe it: the watchlist   *)
(* is processed one symbol after the other, a failing symbol counts as a   *)
(* non-match.  /api/bulk_scan answers once at the end with all matches;    *)
(* /api/bulk_scan_stream emits a progress event per symbol, a gem event    *)
(* per match and a terminal complete event.                                *)
(***************************************************************************)
\* the outcomes of one symbol's fetch and evaluation; a failure reaches the
\* client as a non-match does
Outcomes == {"match", "nomatch", "fail"}
Unfailing == {"match", "nomatch"}

\* a failure that ends the scan
Uncaught(srv, sym) ==
    [srv EXCEPT !.active = FALSE, !.failed = Append(@, sym)]

\* a failure is caught and logged, the symbol counts as processed
Caught(srv, sym) ==
    [srv EXCEPT !.pos = @ + 1, !.failed = Append(@, sym)]

SrvProcessSymbol(outcomes) ==
    /\ srvScan.active
    /\ srvScan.pos < Len(Watchlist)
    /\ scanConn \in {"pending", "open"}
    /\ \E outcome \in outcomes :
         LET sym == Watchlist[srvScan.pos + 1]
             gems == IF outcome = "match" THEN Append(srvScan.gems, sym)
                     ELSE srvScan.gems
             progress == Event("progress", sym, srvScan.pos + 1,
                               Len(Watchlist), Len(gems))
             gem == Event("gem", sym, srvScan.pos + 1, Len(Watchlist),
                          Len(gems))
         IN /\ srvScan' =
                 IF outcome = "fail" THEN Caught(srvScan, sym)
                 ELSE [srvScan EXCEPT !.pos = @ + 1, !.gems = gems]
            /\ scanChan' =
                 IF appVariant = "bulk" THEN scanChan
                 ELSE IF outcome = "match"
                 THEN scanChan \o <<progress, gem>>
                 ELSE Append(scanChan, progress)
    /\ UNCHANGED <<appVariant, stocks, selectedStock, loading, scanStatus,
                   scanProgress, aiVerdict, showAudit, timeframe,
                   chartLoading, chartReqs, scanTimers, scanConn, auditVars,
                   chartVars, sigVars, menuVars,
                   chatVars>>

SrvFinish ==
    /\ srvScan.active
    /\ srvScan.pos = Len(Watchlist)
    /\ scanConn \in {"pending", "open"}
    /\ srvScan' = [srvScan EXCEPT !.active = FALSE]
    /\ scanChan' =
         IF appVariant = "bulk" THEN <<BulkResponse(srvScan.gems)>>
         ELSE Append(scanChan,
                     Event("complete", "-", srvScan.pos, Len(Watchlist),
                           Len(srvScan.gems)))
    /\ UNCHANGED <<appVariant, stocks, selectedStock, loading, scanStatus,
                   scanProgress, aiVerdict, showAudit, timeframe,
                   chartLoading, chartReqs, scanTimers, scanConn, auditVars,
                   chartVars, sigVars, menuVars,
                   chatVars>>

\* the streaming endpoint gives up with an error event
SrvError ==
    /\ appVariant = "stream"
    /\ srvScan.active
    /\ scanConn = "open"
    /\ srvScan' = [srvScan EXCEPT !.active = FALSE]
    /\ scanChan' = Append(scanChan, Event("error", "-", srvScan.pos,
                                          Len(Watchlist), Len(srvScan.gems)))
    /\ UNCHANGED <<appVariant, stocks, selectedStock, loading, scanStatus,
                   scanProgress, aiVerdict, showAudit, timeframe,
                   chartLoading, chartReqs, scanTimers, scanConn, auditVars,
                   chartVars, sigVars, menuVars,
                   chatVars>>

(***************************************************************************)
(* App: market scan.                                                       *)
(***************************************************************************)
\* runScan of App.jsx up to its await (the button is disabled while loading)
RunScanBulk ==
    /\ AppAlive
    /\ appVariant = "bulk"
    /\ ~loading
    /\ Len(scanTimers) + 2 <= MaxScanTimers
    /\ loading' = TRUE
    /\ stocks' = <<>>
    /\ selectedStock' = NoStock
    /\ scanStatus' = Status("Initializing Scanner", 0, 0)
    /\ scanTimers' = scanTimers \o
         <<Status("Connecting to NSE Data Feed", 0, 0),
           Status("Scanning Watchlist", 0, 0)>>
    /\ scanConn' = "pending"
    /\ scanChan' = <<>>
    /\ srvScan' = [SrvIdle EXCEPT !.active = TRUE]
    /\ UNCHANGED <<appVariant, scanProgress, aiVerdict, showAudit, timeframe,
                   chartLoading, chartReqs, auditVars, chartVars, sigVars, menuVars,
                   chatVars>>

\* a setTimeout callback of runScan sets its status text
ScanTimerFires ==
    /\ AppAlive
    /\ scanTimers # <<>>
    /\ scanStatus' = Head(scanTimers)
    /\ scanTimers' = Tail(scanTimers)
    /\ UNCHANGED <<appVariant, stocks, selectedStock, loading, scanProgress,
                   aiVerdict, showAudit, timeframe, chartLoading, chartReqs,
                   scanConn, scanChan, srvScan, auditVars, chartVars, sigVars, menuVars,
                   chatVars>>

\* the /api/bulk_scan response arrives
BulkScanResponse ==
    /\ AppAlive
    /\ scanConn = "pending"
    /\ scanChan # <<>>
    /\ LET gems == Head(scanChan).gems IN
         IF Len(gems) > 0
         THEN /\ stocks' = gems
              /\ scanStatus' = Status("Scan Complete", Len(gems), 0)
         ELSE /\ stocks' = stocks
              /\ scanStatus' = Status("No stocks matched", 0, 0)
    /\ loading' = FALSE
    /\ scanConn' = "none"
    /\ scanChan' = <<>>
    /\ UNCHANGED <<appVariant, selectedStock, scanProgress, aiVerdict,
                   showAudit, timeframe, chartLoading, chartReqs, scanTimers,
                   srvScan, auditVars, chartVars, sigVars, menuVars,
                   chatVars>>

\* the /api/bulk_scan request fails
BulkScanFails ==
    /\ AppAlive
    /\ scanConn = "pending"
    /\ scanStatus' = Status("Connection Error", 0, 0)
    /\ loading' = FALSE
    /\ scanConn' = "none"
    /\ scanChan' = <<>>
    /\ srvScan' = [srvScan EXCEPT !.active = FALSE]
    /\ UNCHANGED <<appVariant, stocks, selectedStock, scanProgress,
                   aiVerdict, showAudit, timeframe, chartLoading, chartReqs,
                   scanTimers, auditVars, chartVars, sigVars, menuVars,
                   chatVars>>

\* runScan of the streaming version: opens the EventSource; the endpoint
\* announces the scan with a start event
RunScanStream ==
    /\ AppAlive
    /\ appVariant = "stream"
    /\ ~loading
    /\ loading' = TRUE
    /\ stocks' = <<>>
    /\ selectedStock' = NoStock
    /\ scanStatus' = Status("Initializing Scanner", 0, 0)
    /\ scanProgress' = NoProgress
    /\ scanConn' = "open"
    /\ scanChan' = <<Event("start", "-", 0, Len(Watchlist), 0)>>
    /\ srvScan' = [SrvIdle EXCEPT !.active = TRUE]
    /\ UNCHANGED <<appVariant, aiVerdict, showAudit, timeframe, chartLoading,
                   chartReqs, scanTimers, auditVars, chartVars, sigVars, menuVars,
                   chatVars>>

\* a handler that leaves the event stream as it is
EventSourceLeftOpen(conn) == conn

\* eventSource.close()
EventSourceClose(conn) == "closed"

\* eventSource.onmessage for the next event of the stream
ScanEvent ==
    /\ AppAlive
    /\ scanConn = "open"
    /\ scanChan # <<>>
    /\ LET data == Head(scanChan) IN
         CASE data.type = "start" ->
                /\ scanStatus' = Status("Starting scan", data.total, 0)
                /\ scanProgress' = [scanProgress EXCEPT !.total = data.total]
                /\ scanChan' = Tail(scanChan)
                /\ UNCHANGED <<stocks, loading, scanConn>>
           [] data.type = "progress" ->
                /\ scanStatus' = Status("Scanning", data.scanned, data.total)
                /\ scanProgress' =
                     [current |-> data.sym, scanned |-> data.scanned,
                      total |-> data.total,
                      progress |-> (data.scanned * 100) \div data.total,
                      gems_found |-> data.gems_found]
                /\ scanChan' = Tail(scanChan)
                /\ UNCHANGED <<stocks, loading, scanConn>>
           [] data.type = "gem" ->
                /\ stocks' = Append(stocks, data.sym)
                /\ scanProgress' =
                     [scanProgress EXCEPT !.gems_found = data.gems_found]
                /\ scanChan' = Tail(scanChan)
                /\ UNCHANGED <<scanStatus, loading, scanConn>>
           [] data.type = "complete" ->
                /\ scanStatus' =
                     Status("Scan Complete", data.gems_found, data.scanned)
                /\ scanProgress' = [scanProgress EXCEPT !.progress = 100]
                /\ scanConn' = EventSourceClose(scanConn)
                /\ scanChan' = <<>>
                /\ loading' = FALSE
                /\ UNCHANGED stocks
           [] OTHER ->
                /\ scanStatus' = Status("Error", 0, 0)
                /\ scanConn' = EventSourceClose(scanConn)
                /\ scanChan' = <<>>
                /\ loading' = FALSE
                /\ UNCHANGED <<stocks, scanProgress>>
    /\ UNCHANGED <<appVariant, selectedStock, aiVerdict, showAudit,
                   timeframe, chartLoading, chartReqs, scanTimers, srvScan,
                   auditVars, chartVars, sigVars, menuVars,
                   chatVars>>

\* eventSource.onerror: the connection failed or was lost
ScanStreamError ==
    /\ AppAlive
    /\ scanConn = "open"
    /\ scanStatus' = Status("Connection Error", 0, 0)
    /\ scanConn' = EventSourceClose(scanConn)
    /\ scanChan' = <<>>
    /\ loading' = FALSE
    /\ srvScan' = [srvScan EXCEPT !.active = FALSE]
    /\ UNCHANGED <<appVariant, stocks, selectedStock, scanProgress,
                   aiVerdict, showAudit, timeframe, chartLoading, chartReqs,
                   scanTimers, auditVars, chartVars, sigVars, menuVars,
                   chatVars>>

AppNext ==
    \/ HandleStockClick
    \/ SetTimeframe
    \/ ChartResponse
    \/ AskGemini
    \/ AuditSucceeds
    \/ AuditEmpty
    \/ AuditFails
    \/ ToggleAudit
    \/ SrvProcessSymbol(Unfailing)
    \/ SrvFinish
    \/ SrvError
    \/ RunScanBulk
    \/ ScanTimerFires
    \/ BulkScanResponse
    \/ BulkScanFails
    \/ RunScanStream
    \/ ScanEvent
    \/ ScanStreamError

(***************************************************************************)
(* The enhanced TitanChat component.  A text is a sequence of characters;  *)
(* a fixed text whose characters never matter is one element long.         *)
(***************************************************************************)
ChatSymbols == Range(Watchlist)

Q1 == <<"q1">>
Q2 == <<"q2">>
Blank == <<" ">>
Inputs == {<<>>, Q1, Q2, Blank}
OneInput == {Q1}
SuggestedQuestions == {<<"What is the RSI indicating?">>}
NoResponse == <<"No response received.">>
ApiReply == <<"reply">>
ApiErrorReply == <<"error reply">>
ApiErrorText == <<"Error: ", "message", ". Please try again.">>

HistoryCap == 50
InputHistoryCap == 10
SevenDays == 7

MaxSends == 2
MaxStreamSends == 1
MaxNow == 7

\* text.trim()
RECURSIVE TrimLeft(_)
TrimLeft(text) ==
    IF text # <<>> /\ Head(text) = " " THEN TrimLeft(Tail(text)) ELSE text

RECURSIVE TrimRight(_)
TrimRight(text) ==
    IF text # <<>> /\ text[Len(text)] = " "
    THEN TrimRight(SubSeq(text, 1, Len(text) - 1))
    ELSE text

Trim(text) == TrimRight(TrimLeft(text))

\* seq.slice(-n)
LastN(seq, n) ==
    IF Len(seq) <= n THEN seq ELSE SubSeq(seq, Len(seq) - n + 1, Len(seq))

\* seq.slice(0, n)
FirstN(seq, n) == IF Len(seq) <= n THEN seq ELSE SubSeq(seq, 1, n)

(***************************************************************************)
(* The auto-complete of the input.                                         *)
(***************************************************************************)
tradingTerms ==
    <<<<"s", "u", "p", "p", "o", "r", "t">>,
      <<"r", "e", "s", "i", "s", "t", "a", "n", "c", "e">>,
      <<"t", "r", "e", "n", "d">>,
      <<"p", "a", "t", "t", "e", "r", "n">>,
      <<"m", "o", "m", "e", "n", "t", "u", "m">>,
      <<"R", "S", "I">>,
      <<"E", "M", "A">>,
      <<"v", "o", "l", "u", "m", "e">>,
      <<"b", "u", "y">>,
      <<"s", "e", "l", "l">>,
      <<"t", "a", "r", "g", "e", "t">>,
      <<"s", "t", "o", "p", " ", "l", "o", "s", "s">>,
      <<"b", "r", "e", "a", "k", "o", "u", "t">>,
      <<"b", "r", "e", "a", "k", "d", "o", "w", "n">>,
      <<"p", "u", "l", "l", "b", "a", "c", "k">>,
      <<"r", "e", "t", "r", "a", "c", "e", "m", "e", "n", "t">>,
      <<"f", "i", "b", "o", "n", "a", "c", "c", "i">>,
      <<"d", "o", "u", "b", "l", "e", " ", "t", "o", "p">>,
      <<"d", "o", "u", "b", "l", "e", " ", "b", "o", "t", "t", "o", "m">>,
      <<"h", "e", "a", "d", " ", "a", "n", "d", " ", "s", "h", "o", "u", "l", "d", "e", "r", "s">>,
      <<"f", "l", "a", "g">>,
      <<"p", "e", "n", "n", "a", "n", "t">>>>

SuggestionCap == 5

\* text.toLowerCase(), for the letters of the terms and inputs
LowerOf(c) ==
    CASE c = "R" -> "r" [] c = "S" -> "s" [] c = "I" -> "i"
      [] c = "E" -> "e" [] c = "M" -> "m" [] c = "A" -> "a"
      [] OTHER -> c

ToLowerCase(text) == [i \in 1..Len(text) |-> LowerOf(text[i])]

\* text.includes(part)
Includes(text, part) ==
    \E i \in 0..(Len(text) - Len(part)) :
        SubSeq(text, i + 1, i + Len(part)) = part

\* the terms the auto-complete effect finds for an input
Matches(text) ==
    FirstN(SelectSeq(tradingTerms,
                     LAMBDA term :
                         Includes(ToLowerCase(term), ToLowerCase(text))),
           SuggestionCap)

\* the texts typed where the dropdown matters: many matches, one, none
TermInputs == {<<"s">>, <<"r", "s", "i">>, <<"z">>}

(***************************************************************************)
(* The event stream of /api/chat/stream as the reader loop expects it:     *)
(* one line  data: {"text":"..."}  and an empty line per text event, and   *)
(* the line  data: [DONE]  as end marker.                                  *)
(***************************************************************************)
NL == "LF"
Quote == "QUOTE"
DataPrefix == <<"d", "a", "t", "a", ":", " ">>
DoneMarker == <<"[", "D", "O", "N", "E", "]">>
JsonOpen == <<"{", Quote, "t", "e", "x", "t", Quote, ":", Quote>>
JsonClose == <<Quote, "}">>

SseEvent(text) == DataPrefix \o JsonOpen \o text \o JsonClose \o <<NL, NL>>
SseDone == DataPrefix \o DoneMarker \o <<NL, NL>>

RECURSIVE Concat(_)
Concat(texts) ==
    IF texts = <<>> THEN <<>> ELSE Head(texts) \o Concat(Tail(texts))

RECURSIVE SseEvents(_)
SseEvents(texts) ==
    IF texts = <<>> THEN <<>>
    ELSE SseEvent(Head(texts)) \o SseEvents(Tail(texts))

\* a stream: the text events before the end marker, and the bytes sent
Wire(events, trailer) ==
    [events |-> events, bytes |-> SseEvents(events) \o SseDone \o trailer]

\* streams with one and two text events, and one that goes on after the
\* end marker
StreamWires ==
    {Wire(<<<<"a">>>>, <<>>),
     Wire(<<<<"a">>, <<"b">>>>, <<>>),
     Wire(<<<<"a">>>>, SseEvent(<<"b">>))}

\* the stream of the runs that do not look into the reader loop
ShortWires == {Wire(<<<<"a">>>>, <<>>)}

(***************************************************************************)
(* The reader loop of handleSend.                                          *)
(***************************************************************************)
\* chunk.split('\n')
RECURSIVE SplitLines(_)
SplitLines(chunk) ==
    IF \A i \in 1..Len(chunk) : chunk[i] # NL THEN <<chunk>>
    ELSE LET i == CHOOSE k \in 1..Len(chunk) :
                     /\ chunk[k] = NL
                     /\ \A j \in 1..(k - 1) : chunk[j] # NL
         IN <<SubSeq(chunk, 1, i - 1)>>
              \o SplitLines(SubSeq(chunk, i + 1, Len(chunk)))

\* line.startsWith(prefix)
StartsWith(line, prefix) ==
    /\ Len(line) >= Len(prefix)
    /\ SubSeq(line, 1, Len(prefix)) = prefix

\* line.slice(n)
Slice(line, n) == SubSeq(line, n + 1, Len(line))

\* JSON.parse(data).text, or the empty text where JSON.parse throws or the
\* value has no text
ParsedText(data) ==
    LET n == Len(data)
        inner == SubSeq(data, Len(JsonOpen) + 1, n - Len(JsonClose))
    IN IF /\ n >= Len(JsonOpen) + Len(JsonClose)
          /\ StartsWith(data, JsonOpen)
          /\ SubSeq(data, n - Len(JsonClose) + 1, n) = JsonClose
          /\ \A i \in 1..Len(inner) : inner[i] \notin {Quote, NL}
       THEN inner
       ELSE <<>>

\* the for loop over the lines of one chunk: accumulatedText after it
RECURSIVE ProcessLines(_, _)
ProcessLines(lines, accumulatedText) ==
    IF lines = <<>> THEN accumulatedText
    ELSE IF StartsWith(Head(lines), DataPrefix)
    THEN LET data == Slice(Head(lines), 6) IN
           IF data = DoneMarker THEN accumulatedText
           ELSE ProcessLines(Tail(lines), accumulatedText \o ParsedText(data))
    ELSE ProcessLines(Tail(lines), accumulatedText)

\* one pass of the while loop for the chunk a read returned
ProcessChunk(accumulatedText, chunk) ==
    ProcessLines(SplitLines(chunk), accumulatedText)

\* the sizes of the chunk the next read may return of n bytes not read yet
ChunkSizes(whole, n) == IF whole THEN {n} ELSE 1..n

(***************************************************************************)
(* TitanChat: state.  sym and req of a message are not fields of the       *)
(* program's message: they record the symbol whose conversation the        *)
(* message belongs to and the handleSend call that produced it.            *)
(***************************************************************************)
UserMessage(text, sym, req) ==
    [type |-> "user", text |-> text, timestamp |-> now, error |-> FALSE,
     sym |-> sym, req |-> req]

AiMessage(text, error, sym, req) ==
    [type |-> "ai", text |-> text, timestamp |-> now, error |-> error,
     sym |-> sym, req |-> req]

\* localStorage.getItem gives null, or the saved object
NoItem == [present |-> FALSE, messages |-> <<>>]
Item(msgs) == [present |-> TRUE, messages |-> msgs]

\* a call of handleSend: phase tells where its promise chain stands;
\* posted lists the /api/chat requests it made, appended counts the AI
\* messages it appended
NoSend ==
    [phase |-> "unused", sym |-> "-", question |-> <<>>, aborted |-> FALSE,
     streamFailed |-> FALSE, events |-> <<>>, rest |-> <<>>,
     accumulatedText |-> <<>>, posted |-> <<>>, appended |-> 0]

NewSend(sym, question) ==
    [NoSend EXCEPT !.phase = "stream_pending", !.sym = sym,
                   !.question = question]

\* a call that has returned: its locals are gone, the record of what it
\* did stays
Returned(r, phase, appended) ==
    [NoSend EXCEPT !.phase = phase, !.streamFailed = r.streamFailed,
                   !.events = r.events, !.posted = r.posted,
                   !.appended = appended]

NextId == 1 + Cardinality({i \in DOMAIN chatReqs : chatReqs[i].phase # "unused"})

InFlight(r) == r.phase \in {"stream_pending", "reading", "fallback_pending"}

\* what a handler of the current render sees
CurrentClosure ==
    [inputText |-> inputText, loading |-> chatLoading,
     inputHistory |-> inputHistory, symbol |-> chatSymbol]

ChatIdle ==
    /\ chatSymbol = Watchlist[1]
    /\ messages = <<>>
    /\ inputText = <<>>
    /\ chatLoading = FALSE
    /\ streamingText = <<>>
    /\ inputHistory = <<>>
    /\ abortControllerRef = 0
    /\ chatReqs = [i \in 1..MaxSends |-> NoSend]
    /\ sendTimers = <<>>
    /\ chatStore = [s \in ChatSymbols |-> NoItem]
    /\ inputStore = [s \in ChatSymbols |-> <<>>]
    /\ now = 0
    /\ KeysIdle
    /\ MenuIdle

(***************************************************************************)
(* TitanChat: the history effects.                                         *)
(***************************************************************************)
\* a filter that keeps a message exactly 7 days old
IsRecentInclusive(msg) == now - msg.timestamp <= SevenDays

\* the filter of the load effect
IsRecent(msg) == now - msg.timestamp < SevenDays

\* the list the load effect sets for a symbol
LoadHistory(store, symbol) ==
    IF store[symbol].present
    THEN SelectSeq(store[symbol].messages, IsRecent)
    ELSE <<>>

\* a save effect that writes the whole list
SaveUncapped(store, symbol, msgs) ==
    IF Len(msgs) > 0
    THEN [store EXCEPT ![symbol] = Item(msgs)]
    ELSE store

\* the save effect for the symbol and the messages of one render
SaveHistory(store, symbol, msgs) ==
    IF Len(msgs) > 0
    THEN [store EXCEPT ![symbol] = Item(LastN(msgs, HistoryCap))]
    ELSE store

\* the symbol prop changes: the load and the save effect run with the new
\* symbol and the messages of that render, then the save effect runs again
\* for the list the load effect has set
SymbolChange ==
    /\ \E s \in ChatSymbols \ {chatSymbol} :
         LET loaded == LoadHistory(chatStore, s)
             saved == SaveHistory(chatStore, s, messages)
         IN /\ chatSymbol' = s
            /\ messages' = loaded
            /\ chatStore' = SaveHistory(saved, s, loaded)
    /\ UNCHANGED <<inputText, chatLoading, streamingText, inputHistory,
                   abortControllerRef, chatReqs, sendTimers, inputStore, now,
                   appVars, chartVars, sigVars, menuVars, keyVars>>

(***************************************************************************)
(* TitanChat: sending.                                                     *)
(***************************************************************************)
\* handleSend up to its first await, called from a render with closure c
HandleSend(c, limit) ==
    LET question == Trim(c.inputText)
        id == NextId
        newHistory == LastN(Append(c.inputHistory, question), InputHistoryCap)
    IN /\ question # <<>>
       /\ ~c.loading
       /\ id <= limit
       /\ inputHistory' = newHistory
       /\ inputStore' = [inputStore EXCEPT ![c.symbol] = newHistory]
       /\ messages' = Append(messages, UserMessage(question, c.symbol, id))
       /\ inputText' = <<>>
       /\ streamingText' = <<>>
       /\ chatLoading' = TRUE
       /\ chatReqs' =
            [i \in DOMAIN chatReqs |->
               IF i = id THEN NewSend(c.symbol, question)
               ELSE IF i = abortControllerRef
               THEN [chatReqs[i] EXCEPT !.aborted = TRUE]
               ELSE chatReqs[i]]
       /\ abortControllerRef' = id
       /\ chatStore' = SaveHistory(chatStore, chatSymbol, messages')
       /\ historyIndex' = 0 - 1
       /\ showSuggestions' = FALSE
       /\ suggestions' = IF inputText # <<>> THEN <<>> ELSE suggestions
       /\ UNCHANGED selectedSuggestion

\* the auto-complete effect, run after a render that changed inputText
AutoCompleteEffect ==
    IF inputText' = inputText
    THEN UNCHANGED <<suggestions, showSuggestions, selectedSuggestion>>
    ELSE IF Trim(inputText') # <<>>
    THEN /\ suggestions' = Matches(inputText')
         /\ showSuggestions' = (Len(Matches(inputText')) > 0)
         /\ selectedSuggestion' = 0
    ELSE /\ showSuggestions' = FALSE
         /\ suggestions' = <<>>
         /\ UNCHANGED selectedSuggestion

\* handleSend returns at once
SendRefused(c) == Trim(c.inputText) = <<>> \/ c.loading

\* typing into the input (disabled while loading)
SetInputText(texts) ==
    /\ ~chatLoading
    /\ \E text \in texts \ {inputText} : inputText' = text
    /\ AutoCompleteEffect
    /\ UNCHANGED <<chatSymbol, messages, chatLoading, streamingText,
                   inputHistory, abortControllerRef, chatReqs, sendTimers,
                   chatStore, inputStore, now, historyIndex, appVars,
                   chartVars, sigVars, menuVars>>

\* the Send button (disabled while loading or with blank input)
SendMessage(limit) ==
    /\ ~chatLoading
    /\ HandleSend(CurrentClosure, limit)
    /\ UNCHANGED <<chatSymbol, sendTimers, now, appVars, chartVars, sigVars, menuVars>>

\* handleInputKeyDown of the current render for a key pressed in the input;
\* the key of Ctrl/Cmd+Enter is Enter as well
InputKeyDown(key, limit) ==
    IF key = "ArrowUp" /\ Len(inputHistory) > 0
    THEN /\ IF historyIndex = 0 - 1
            THEN /\ historyIndex' = Len(inputHistory) - 1
                 /\ inputText' = inputHistory[Len(inputHistory)]
            ELSE IF historyIndex > 0
            THEN /\ historyIndex' = historyIndex - 1
                 /\ inputText' = inputHistory[historyIndex]
            ELSE UNCHANGED <<historyIndex, inputText>>
         /\ AutoCompleteEffect
         /\ UNCHANGED <<messages, chatLoading, streamingText, inputHistory,
                        abortControllerRef, chatReqs, chatStore, inputStore>>
    ELSE IF key = "ArrowDown" /\ historyIndex # 0 - 1
    THEN /\ IF historyIndex < Len(inputHistory) - 1
            THEN /\ historyIndex' = historyIndex + 1
                 /\ inputText' = inputHistory[historyIndex + 2]
            ELSE /\ historyIndex' = 0 - 1
                 /\ inputText' = <<>>
         /\ AutoCompleteEffect
         /\ UNCHANGED <<messages, chatLoading, streamingText, inputHistory,
                        abortControllerRef, chatReqs, chatStore, inputStore>>
    ELSE IF key = "Enter"
    THEN IF showSuggestions /\ Len(suggestions) > 0
         THEN /\ inputText' = suggestions[selectedSuggestion + 1]
              /\ IF inputText' = inputText
                 THEN /\ showSuggestions' = FALSE
                      /\ UNCHANGED <<suggestions, selectedSuggestion>>
                 ELSE AutoCompleteEffect
              /\ UNCHANGED <<historyIndex, messages, chatLoading,
                             streamingText, inputHistory, abortControllerRef,
                             chatReqs, chatStore, inputStore>>
         ELSE IF SendRefused(CurrentClosure)
         THEN UNCHANGED <<inputText, keyVars, messages, chatLoading,
                          streamingText, inputHistory, abortControllerRef,
                          chatReqs, chatStore, inputStore>>
         ELSE HandleSend(CurrentClosure, limit)
    ELSE IF key = "ArrowDown" /\ showSuggestions /\ Len(suggestions) > 0
    THEN /\ selectedSuggestion' =
              IF selectedSuggestion + 1 < Len(suggestions) - 1
              THEN selectedSuggestion + 1
              ELSE Len(suggestions) - 1
         /\ UNCHANGED <<inputText, historyIndex, suggestions,
                        showSuggestions, messages, chatLoading,
                        streamingText, inputHistory, abortControllerRef,
                        chatReqs, chatStore, inputStore>>
    ELSE IF key = "ArrowUp" /\ showSuggestions /\ Len(suggestions) > 0
    THEN /\ selectedSuggestion' =
              IF selectedSuggestion - 1 > 0 THEN selectedSuggestion - 1
              ELSE 0
         /\ UNCHANGED <<inputText, historyIndex, suggestions,
                        showSuggestions, messages, chatLoading,
                        streamingText, inputHistory, abortControllerRef,
                        chatReqs, chatStore, inputStore>>
    ELSE UNCHANGED <<inputText, keyVars, messages, chatLoading,
                     streamingText, inputHistory, abortControllerRef,
                     chatReqs, chatStore, inputStore>>

\* a key is pressed in the input (disabled while loading)
HandleInputKeyDown(keys, limit) ==
    /\ ~chatLoading
    /\ \E key \in keys : InputKeyDown(key, limit)
    /\ UNCHANGED <<chatSymbol, sendTimers, now, appVars, chartVars, sigVars, menuVars>>

Keys == {"ArrowUp", "ArrowDown", "Enter"}

\* what a handler of the next render sees
NextClosure ==
    [inputText |-> inputText', loading |-> chatLoading',
     inputHistory |-> inputHistory', symbol |-> chatSymbol']

\* Ctrl/Cmd+Enter is pressed in the input: handleInputKeyDown runs, then
\* the event reaches the keydown listener of the window, which calls
\* handleSend of its render if that render was not loading and had input.
\* The listener is the one of the render before the key press while the
\* keyboard effect has not run again, and the one of the next render once
\* it has; its call is kept with the scheduled calls of handleSend.
CtrlEnterDown(limit) ==
    /\ ~chatLoading
    /\ chatSymbol' = chatSymbol
    /\ InputKeyDown("Enter", limit)
    /\ \E listener \in {CurrentClosure, NextClosure} :
         sendTimers' = Append(sendTimers, listener)
    /\ UNCHANGED <<now, appVars, chartVars, sigVars, menuVars>>

\* a suggested question is clicked (the buttons are rendered while not
\* loading): it is put into the input, and handleSend of this render is
\* scheduled
HandleSuggestionClick ==
    /\ ~chatLoading
    /\ NextId + Len(sendTimers) <= MaxSends
    /\ \E question \in SuggestedQuestions : inputText' = question
    /\ sendTimers' = Append(sendTimers, CurrentClosure)
    /\ AutoCompleteEffect
    /\ UNCHANGED <<chatSymbol, messages, chatLoading, streamingText,
                   inputHistory, abortControllerRef, chatReqs, chatStore,
                   inputStore, now, historyIndex, appVars, chartVars, sigVars, menuVars>>

\* the scheduled handleSend runs
SendTimerFires ==
    /\ sendTimers # <<>>
    /\ sendTimers' = Tail(sendTimers)
    /\ IF SendRefused(Head(sendTimers))
       THEN UNCHANGED <<messages, inputText, chatLoading, streamingText,
                        inputHistory, abortControllerRef, chatReqs,
                        chatStore, inputStore, keyVars>>
       ELSE HandleSend(Head(sendTimers), MaxSends)
    /\ UNCHANGED <<chatSymbol, now, appVars, chartVars, sigVars, menuVars>>

\* a catch block that reports the error without asking /api/chat
NoFallbackPost(r) == <<>>

\* the requests to /api/chat made in the catch block
FallbackPost(r) == <<[symbol |-> r.sym, question |-> r.question]>>

\* the finally block
Finally ==
    /\ chatLoading' = FALSE
    /\ streamingText' = <<>>
    /\ abortControllerRef' = 0

\* the response to the stream request: a stream, a status that is not OK,
\* or no response
StreamResponds(wires) ==
    /\ \E id \in DOMAIN chatReqs :
         LET r == chatReqs[id] IN
         /\ r.phase = "stream_pending"
         /\ ~r.aborted
         /\ \/ \E w \in wires :
                 chatReqs' = [chatReqs EXCEPT ![id] =
                    [r EXCEPT !.phase = "reading", !.events = w.events,
                              !.rest = w.bytes]]
            \/ chatReqs' = [chatReqs EXCEPT ![id] =
                    [r EXCEPT !.phase = "fallback_pending",
                              !.streamFailed = TRUE,
                              !.posted = @ \o FallbackPost(r)]]
    /\ UNCHANGED <<chatSymbol, messages, inputText, chatLoading,
                   streamingText, inputHistory, abortControllerRef,
                   sendTimers, chatStore, inputStore, now, appVars,
                   chartVars, sigVars, menuVars, keyVars>>

\* reader.read() returns a chunk
StreamRead(whole) ==
    /\ \E id \in DOMAIN chatReqs :
         LET r == chatReqs[id] IN
         /\ r.phase = "reading"
         /\ ~r.aborted
         /\ r.rest # <<>>
         /\ \E k \in ChunkSizes(whole, Len(r.rest)) :
              LET text == ProcessChunk(r.accumulatedText,
                                       SubSeq(r.rest, 1, k))
              IN /\ chatReqs' = [chatReqs EXCEPT ![id] =
                       [r EXCEPT !.rest = Slice(r.rest, k),
                                 !.accumulatedText = text]]
                 /\ streamingText' =
                      IF text # r.accumulatedText THEN text
                      ELSE streamingText
    /\ UNCHANGED <<chatSymbol, messages, inputText, chatLoading,
                   inputHistory, abortControllerRef, sendTimers, chatStore,
                   inputStore, now, appVars, chartVars, sigVars, menuVars, keyVars>>

\* reader.read() returns done: the AI message is appended
StreamEnds ==
    /\ \E id \in DOMAIN chatReqs :
         LET r == chatReqs[id]
             text == IF r.accumulatedText # <<>> THEN r.accumulatedText
                     ELSE NoResponse
         IN /\ r.phase = "reading"
            /\ ~r.aborted
            /\ r.rest = <<>>
            /\ messages' =
                 Append(messages, AiMessage(text, FALSE, r.sym, id))
            /\ chatReqs' = [chatReqs EXCEPT ![id] =
                 Returned(r, "done", r.appended + 1)]
    /\ Finally
    /\ chatStore' = SaveHistory(chatStore, chatSymbol, messages')
    /\ UNCHANGED <<chatSymbol, inputText, inputHistory, sendTimers,
                   inputStore, now, appVars, chartVars, sigVars, menuVars, keyVars>>

\* reader.read() rejects because the connection broke
StreamBreaks ==
    /\ \E id \in DOMAIN chatReqs :
         LET r == chatReqs[id] IN
         /\ r.phase = "reading"
         /\ ~r.aborted
         /\ chatReqs' = [chatReqs EXCEPT ![id] =
              [r EXCEPT !.phase = "fallback_pending",
                        !.streamFailed = TRUE,
                        !.posted = @ \o FallbackPost(r)]]
    /\ UNCHANGED <<chatSymbol, messages, inputText, chatLoading,
                   streamingText, inputHistory, abortControllerRef,
                   sendTimers, chatStore, inputStore, now, appVars,
                   chartVars, sigVars, menuVars, keyVars>>

\* the fetch or the read of an aborted request rejects with an AbortError
AbortObserved ==
    /\ \E id \in DOMAIN chatReqs :
         LET r == chatReqs[id] IN
         /\ r.phase \in {"stream_pending", "reading"}
         /\ r.aborted
         /\ chatReqs' = [chatReqs EXCEPT ![id] =
              Returned(r, "aborted", r.appended)]
    /\ Finally
    /\ UNCHANGED <<chatSymbol, messages, inputText, inputHistory,
                   sendTimers, chatStore, inputStore, now, appVars,
                   chartVars, sigVars, menuVars, keyVars>>

\* the outcomes of the /api/chat request: a reply, no reply, an error
\* with a reply in its body, or an error without
ApiOutcomes == {"reply", "noreply", "error_reply", "error"}
ReplyOrError == {"reply", "error"}

\* the response to the /api/chat request
FallbackResponds(outcomes) ==
    /\ \E id \in DOMAIN chatReqs,
          outcome \in outcomes :
         LET r == chatReqs[id]
             text == CASE outcome = "reply" -> ApiReply
                       [] outcome = "noreply" -> NoResponse
                       [] outcome = "error_reply" -> ApiErrorReply
                       [] OTHER -> ApiErrorText
             error == outcome \in {"error_reply", "error"}
         IN /\ r.phase = "fallback_pending"
            /\ messages' =
                 Append(messages, AiMessage(text, error, r.sym, id))
            /\ chatReqs' = [chatReqs EXCEPT ![id] =
                 Returned(r, "done", r.appended + 1)]
    /\ Finally
    /\ chatStore' = SaveHistory(chatStore, chatSymbol, messages')
    /\ UNCHANGED <<chatSymbol, inputText, inputHistory, sendTimers,
                   inputStore, now, appVars, chartVars, sigVars, menuVars, keyVars>>

(***************************************************************************)
(* TitanChat: deleting.                                                    *)
(***************************************************************************)
\* the messages the list displays: those the search box's query selects
FilteredMessages ==
    IF Trim(searchQuery) # <<>>
    THEN SelectSeq(messages,
                   LAMBDA msg : Includes(ToLowerCase(msg.text),
                                         ToLowerCase(searchQuery)))
    ELSE messages

\* the position in messages of the message a row displays
PositionOf(row) ==
    CHOOSE i \in DOMAIN messages : messages[i] = FilteredMessages[row]

\* the index the row's buttons hand to their handlers: the row's index in
\* the displayed list
RowIndex(row) == row

\* the rows that carry the action buttons and the menu: those of the AI
ActionRows ==
    {row \in DOMAIN FilteredMessages : FilteredMessages[row].type # "user"}

SearchQueries == {<<>>, Q1, ApiReply}

\* typing in the search box
SetSearchQuery(queries) ==
    /\ \E query \in queries :
         /\ query # searchQuery
         /\ searchQuery' = query
    /\ UNCHANGED <<messageMenuOpen, feedbackStore, chatVars, appVars,
                   chartVars, sigVars>>

\* the More options button of a row
ToggleMessageMenu ==
    /\ \E row \in ActionRows :
         messageMenuOpen' = IF messageMenuOpen = row THEN 0 ELSE row
    /\ UNCHANGED <<searchQuery, feedbackStore, chatVars, appVars, chartVars,
                   sigVars>>

\* localStorage.setItem(key, feedback)
SetFeedback(store, key, feedback) ==
    {item \in store : item.key # key} \cup {[key |-> key, feedback |-> feedback]}

\* a thumb button of a row
HandleFeedback(feedbacks) ==
    /\ \E row \in ActionRows,
          feedback \in feedbacks :
         /\ ~FilteredMessages[row].error
         /\ feedbackStore' =
              SetFeedback(feedbackStore,
                          [sym |-> chatSymbol, index |-> RowIndex(row)],
                          feedback)
    /\ UNCHANGED <<messageMenuOpen, searchQuery, chatVars, appVars,
                   chartVars, sigVars>>

\* Delete in the menu that is open at a row
HandleDeleteMessage ==
    /\ messageMenuOpen \in ActionRows
    /\ messages' = RemoveAt(messages, RowIndex(messageMenuOpen))
    /\ messageMenuOpen' = 0
    /\ chatStore' = SaveHistory(chatStore, chatSymbol, messages')
    /\ UNCHANGED <<chatSymbol, inputText, chatLoading, streamingText,
                   inputHistory, abortControllerRef, chatReqs, sendTimers,
                   inputStore, now, appVars, chartVars, sigVars, keyVars,
                   searchQuery, feedbackStore>>

\* handleRetry(messageIndex): whether it goes on past its test of the message
RetryProceeds(index) ==
    /\ index \in DOMAIN messages
    /\ messages[index].type = "user"

\* the displayed list after handleRetry(messageIndex)
RetryMessages(index) ==
    IF RetryProceeds(index)
    THEN RemoveAt(messages, index + 1)
    ELSE messages

\* the pending handleSend timers after handleRetry(messageIndex)
RetryTimers(index) ==
    IF RetryProceeds(index)
    THEN Append(sendTimers, CurrentClosure)
    ELSE sendTimers

\* the Retry button, rendered on the messages flagged as errors
HandleRetry ==
    /\ NextId + Len(sendTimers) <= MaxSends
    /\ \E index \in {i \in DOMAIN messages : messages[i].error} :
         /\ messages' = RetryMessages(index)
         /\ inputText' = IF RetryProceeds(index)
                         THEN messages[index].text
                         ELSE inputText
         /\ sendTimers' = RetryTimers(index)
         /\ chatStore' = IF RetryProceeds(index)
                         THEN SaveHistory(chatStore, chatSymbol, messages')
                         ELSE chatStore
    /\ AutoCompleteEffect
    /\ UNCHANGED <<chatSymbol, chatLoading, streamingText, inputHistory,
                   abortControllerRef, chatReqs, inputStore, now,
                   historyIndex, appVars, chartVars, sigVars, menuVars>>

\* the clear button (rendered while there are messages), confirmed
HandleClearHistory ==
    /\ Len(messages) > 0
    /\ messages' = <<>>
    /\ chatStore' = [chatStore EXCEPT ![chatSymbol] = NoItem]
    /\ UNCHANGED <<chatSymbol, inputText, chatLoading, streamingText,
                   inputHistory, abortControllerRef, chatReqs, sendTimers,
                   inputStore, now, appVars, chartVars, sigVars, menuVars, keyVars>>

\* time passes
Tick(days) ==
    /\ now + days <= MaxNow
    /\ now' = now + days
    /\ UNCHANGED <<chatSymbol, messages, inputText, chatLoading,
                   streamingText, inputHistory, abortControllerRef,
                   chatReqs, sendTimers, chatStore, inputStore, appVars,
                   chartVars, sigVars, menuVars, keyVars>>

\* symbol changes, sends one at a time, replies and deletions
HistoryNext ==
    \/ SymbolChange
    \/ SetInputText(OneInput)
    \/ SendMessage(MaxSends)
    \/ StreamResponds(ShortWires)
    \/ StreamRead(TRUE)
    \/ StreamEnds
    \/ FallbackResponds(ApiOutcomes)
    \/ ToggleMessageMenu
    \/ HandleDeleteMessage
    \/ HandleClearHistory
    \/ Tick(SevenDays)

\* sends, also scheduled ones, and every way a request can end
SendNext ==
    \/ SetInputText(OneInput)
    \/ SendMessage(MaxSends)
    \/ HandleSuggestionClick
    \/ SendTimerFires
    \/ StreamResponds(ShortWires)
    \/ StreamRead(TRUE)
    \/ StreamEnds
    \/ StreamBreaks
    \/ AbortObserved
    \/ FallbackResponds(ReplyOrError)
    \/ HandleRetry

StreamNext ==
    \/ SetInputText(Inputs)
    \/ SendMessage(MaxStreamSends)
    \/ StreamResponds(StreamWires)
    \/ StreamRead(FALSE)
    \/ StreamEnds

(***************************************************************************)
(* The Signal Evaluator: the momentum-breakout rule on the most recent     *)
(* frame of one symbol.  An indicator of a frame is a number or undefined. *)
(***************************************************************************)
Undefined == [defined |-> FALSE, value |-> 0]
Defined(n) == [defined |-> TRUE, value |-> n]

RsiLow == 50
RsiHigh == 75
\* the volume multiplier 1.5, in tenths
VolumeMultiplierTenths == 15

Frame(close, high, volume, ema_50, ema_200, rsi, avg_volume) ==
    [close |-> close, high |-> high, volume |-> volume, ema_50 |-> ema_50,
     ema_200 |-> ema_200, rsi |-> rsi, avg_volume |-> avg_volume]

\* the four rules, on defined values
Trend(close, ema_50, ema_200) == close > ema_50 /\ ema_50 > ema_200

\* a momentum band without its ends
MomentumOpen(rsi) == RsiLow < rsi /\ rsi < RsiHigh

Momentum(rsi) == RsiLow <= rsi /\ rsi <= RsiHigh

VolumeSurge(volume, avg_volume) ==
    volume * 10 > VolumeMultiplierTenths * avg_volume

Breakout(close, prevHigh) == close > prevHigh

\* the decision for a series: a non-match where the latest bar, the bar
\* before it or an indicator is missing, else the rules one after another
EvaluateSignal(series) ==
    IF Len(series) < 2 THEN FALSE
    ELSE LET current == series[Len(series)]
             previous == series[Len(series) - 1]
         IN IF \/ ~current.ema_50.defined
               \/ ~current.ema_200.defined
               \/ ~current.rsi.defined
               \/ ~current.avg_volume.defined
            THEN FALSE
            ELSE IF ~Trend(current.close, current.ema_50.value,
                           current.ema_200.value)
            THEN FALSE
            ELSE IF ~Momentum(current.rsi.value)
            THEN FALSE
            ELSE IF ~VolumeSurge(current.volume, current.avg_volume.value)
            THEN FALSE
            ELSE Breakout(current.close, previous.high)

\* the latest frames of the series given to the evaluator: every rule true
\* and false, at and next to its limits, and every indicator missing
LatestFrames ==
    {Frame(close, close, volume, ema_50, ema_200, rsi, avg_volume) :
        close \in {104, 110},
        volume \in {1500, 1501, 2000},
        ema_50 \in {Undefined, Defined(105), Defined(111)},
        ema_200 \in {Undefined, Defined(95), Defined(106)},
        rsi \in {Undefined, Defined(49), Defined(50), Defined(60),
                 Defined(75), Defined(76)},
        avg_volume \in {Undefined, Defined(1000)}}

\* the frames before the latest: only their high is read
PreviousFrames ==
    {Frame(100, high, 1000, Undefined, Undefined, Undefined, Undefined) :
        high \in {108, 110}}

SeriesGiven ==
    {<<>>} \cup {<<latest>> : latest \in LatestFrames}
           \cup {<<previous, latest>> :
                    previous \in PreviousFrames, latest \in LatestFrames}

\* the scan takes up a symbol
SignalStart ==
    /\ frames \in SeriesGiven
    /\ decision = NoDecision

\* the evaluator is applied to the series
Evaluate ==
    /\ ~decision.made
    /\ decision' = [made |-> TRUE, match |-> EvaluateSignal(frames)]
    /\ UNCHANGED <<frames, chartVars, appVars, chatVars, menuVars>>

\* the scan goes on to the next symbol
NextSeries ==
    /\ decision.made
    /\ frames' \in SeriesGiven
    /\ decision' = NoDecision
    /\ UNCHANGED <<chartVars, appVars, chatVars, menuVars>>

SignalNext ==
    \/ Evaluate
    \/ NextSeries

InitApp == AppStart /\ ChartIdle /\ ChatIdle /\ SignalIdle
InitChart == ChartStart /\ AppIdle /\ ChatIdle /\ SignalIdle
InitChat == ChatIdle /\ AppIdle /\ ChartIdle /\ SignalIdle

SpecApp == InitApp /\ [][AppNext]_vars

SpecPrep == InitChart /\ [][PrepNext]_vars
SpecSort == InitChart /\ [][SortNext]_vars

InitLife == LifeMount /\ AppIdle /\ ChatIdle /\ SignalIdle

SpecLife == InitLife /\ [][LifeNext]_vars

SpecHistory == InitChat /\ [][HistoryNext]_vars
SpecSend == InitChat /\ [][SendNext]_vars

\* a chat whose list is searched and whose rows are acted on
MenuNext ==
    \/ SetInputText(OneInput)
    \/ SendMessage(MaxSends)
    \/ StreamResponds(ShortWires)
    \/ StreamRead(TRUE)
    \/ StreamEnds
    \/ FallbackResponds(ReplyOrError)
    \/ SetSearchQuery(SearchQueries)
    \/ ToggleMessageMenu
    \/ HandleFeedback({"up", "down"})
    \/ HandleDeleteMessage

SpecMenu == InitChat /\ [][MenuNext]_vars
SpecStream == InitChat /\ [][StreamNext]_vars

InitSignal == SignalStart /\ AppIdle /\ ChartIdle /\ ChatIdle

SpecSignal == InitSignal /\ [][SignalNext]_vars

\* scans in which fetches fail, and the client that follows them
ScanNext ==
    \/ SrvProcessSymbol(Outcomes)
    \/ SrvFinish
    \/ RunScanBulk
    \/ ScanTimerFires
    \/ BulkScanResponse
    \/ RunScanStream
    \/ ScanEvent

SpecScan == InitApp /\ [][ScanNext]_vars

\* typing, the keys of the input, and sends that fill the input history
KeysNext ==
    \/ SetInputText(TermInputs)
    \/ HandleInputKeyDown(Keys, MaxSends)
    \/ StreamResponds(ShortWires)
    \/ StreamRead(TRUE)
    \/ StreamEnds

SpecKeys == InitChat /\ [][KeysNext]_vars

\* Ctrl/Cmd+Enter as the only way to send; the window listener runs before
\* anything else happens
CtrlNext ==
    \/ SendTimerFires
    \/ sendTimers = <<>> /\ SetInputText(TermInputs)
    \/ sendTimers = <<>> /\ CtrlEnterDown(MaxSends)
    \/ sendTimers = <<>> /\ StreamResponds(ShortWires)
    \/ sendTimers = <<>> /\ StreamRead(TRUE)
    \/ sendTimers = <<>> /\ StreamEnds

SpecCtrl == InitChat /\ [][CtrlNext]_vars

(***************************************************************************)
(* A chat that opens on a long saved history: the lists near the cap of    *)
(* the save effect.                                                        *)
(***************************************************************************)
\* the i-th message of an earlier session (its request is numbered -i)
OldMessage(i) ==
    [type |-> IF i % 2 = 1 THEN "user" ELSE "ai", text |-> <<"old">>,
     timestamp |-> 0, error |-> FALSE, sym |-> Watchlist[1], req |-> 0 - i]

\* the lengths of the saved history the chat opens on
LongLens == {HistoryCap - 1, HistoryCap}

\* the component after mounting on a symbol with a saved history
ChatLong ==
    /\ chatSymbol = Watchlist[1]
    /\ \E n \in LongLens : messages = [i \in 1..n |-> OldMessage(i)]
    /\ inputText = <<>>
    /\ chatLoading = FALSE
    /\ streamingText = <<>>
    /\ inputHistory = <<>>
    /\ abortControllerRef = 0
    /\ chatReqs = [i \in 1..MaxSends |-> NoSend]
    /\ sendTimers = <<>>
    /\ chatStore = [s \in ChatSymbols |->
                      IF s = Watchlist[1] THEN Item(messages) ELSE NoItem]
    /\ inputStore = [s \in ChatSymbols |-> <<>>]
    /\ now = 0
    /\ KeysIdle
    /\ MenuIdle

CapNext ==
    \/ SymbolChange
    \/ SetInputText(OneInput)
    \/ SendMessage(MaxSends)
    \/ StreamResponds(ShortWires)
    \/ StreamRead(TRUE)
    \/ StreamEnds
    \/ FallbackResponds(ReplyOrError)

InitLong == ChatLong /\ AppIdle /\ ChartIdle /\ SignalIdle

(***************************************************************************)
(* A chat that opens while another symbol has a saved history of some      *)
(* age (time is counted in days from the mount).                           *)
(***************************************************************************)
\* the i-th message of an earlier session, timestamp t
AgedMessage(i, t) ==
    [OldMessage(i) EXCEPT !.timestamp = t, !.sym = Watchlist[2]]

\* saved histories of two messages up to 7 days old at the mount, the
\* second not older than the first
AgedHistories ==
    {<<AgedMessage(1, t[1]), AgedMessage(2, t[2])>> :
        t \in {u \in ((0 - SevenDays)..0) \X ((0 - SevenDays)..0) :
                  u[1] <= u[2]}}

ChatAged ==
    /\ chatSymbol = Watchlist[1]
    /\ messages = <<>>
    /\ inputText = <<>>
    /\ chatLoading = FALSE
    /\ streamingText = <<>>
    /\ inputHistory = <<>>
    /\ abortControllerRef = 0
    /\ chatReqs = [i \in 1..MaxSends |-> NoSend]
    /\ sendTimers = <<>>
    /\ \E saved \in AgedHistories :
         chatStore = [s \in ChatSymbols |->
                        IF s = Watchlist[2] THEN Item(saved) ELSE NoItem]
    /\ inputStore = [s \in ChatSymbols |-> <<>>]
    /\ now = 0
    /\ KeysIdle
    /\ MenuIdle

LoadNext ==
    \/ SymbolChange
    \/ Tick(1)

InitAged == ChatAged /\ AppIdle /\ ChartIdle /\ SignalIdle

SpecLoad == InitAged /\ [][LoadNext]_vars

SpecCap == InitLong /\ [][CapNext]_vars

(***************************************************************************)
(* Properties of the chart data preparation.                               *)
(***************************************************************************)
\* the map callback of the mounted variant applied to input bar i
MappedBar(i) ==
    IF chartVariant = "indicator"
    THEN IndicatorPoint(chartData[i], i, IsIntradayInterval(chartInterval))
    ELSE LevelsPoint(chartData[i], i, IsIntradayInterval(chartInterval))

\* a source value that is a defined number (or the decimal string of one)
IsNumericSource(x) == x.t \in {"num", "huge", "numstr"}

\* the instant a cleaned time denotes, NaN when it denotes none
InstantOf(time) == IF TypeOf(time) = "number" THEN time ELSE DateOf(time)

\* C2: a cleaned bar, and every indicator series, carries an indicator
\* field only where the source bar had a defined numeric value for it.
C2_NoFabricatedIndicator ==
    \A f \in IndicatorFields :
        /\ \A k \in 1..Len(cleanData) :
              cleanData[k][f] # Undef
                 => IsNumericSource(chartData[cleanData[k].idx][f])
        /\ \A k \in 1..Len(SeriesOf(cleanData, f)) :
              IsNumericSource(chartData[SeriesOf(cleanData, f)[k].idx][f])
        /\ \A k \in 1..Len(RsiSeries(cleanData)) :
              IsNumericSource(chartData[RsiSeries(cleanData)[k].idx].rsi)

\* C3: no input bar whose open, high, low or close is non-numeric or zero
\* is in the cleaned sequence, in either component variant.
C3_BadPricesDropped ==
    \A k \in 1..Len(cleanData) :
        \A f \in {"open", "high", "low", "close"} :
            /\ IsNumericSource(chartData[cleanData[k].idx][f])
            /\ ~IsZero(ToNumber(chartData[cleanData[k].idx][f]))
            /\ ~IsNaN(cleanData[k][f])
            /\ ~IsZero(cleanData[k][f])

\* C4: for every time that valid input bars carry, the cleaned sequence
\* has exactly one bar of that time, and it is the first of them in the
\* input.
C4_FirstSeenKept ==
    \A i \in 1..Len(chartData) :
        MappedBar(i) # Dropped =>
            LET same == {j \in 1..Len(chartData) :
                            /\ MappedBar(j) # Dropped
                            /\ MappedBar(j).time = MappedBar(i).time}
                first == CHOOSE j \in same : \A h \in same : j <= h
                kept == {k \in 1..Len(cleanData) :
                            cleanData[k].time = MappedBar(i).time}
            IN /\ Cardinality(kept) = 1
               /\ \A k \in kept : cleanData[k].idx = first

\* C5: the cleaned sequence is strictly time-ordered: each bar's time is
\* strictly later than the time of the bar before it.
C5_StrictlyOrdered ==
    \A k \in 1..(Len(cleanData) - 1) :
        SignSub(InstantOf(cleanData[k + 1].time),
                InstantOf(cleanData[k].time)) = Num(1)

\* C6: for an intraday interval every cleaned time is a number of Unix
\* seconds t with 0 < t <= 2^31-1, otherwise it is a YYYY-MM-DD string.
C6_TimeNormalized ==
    \A k \in 1..Len(cleanData) :
        IF IsIntradayInterval(chartInterval)
        THEN /\ cleanData[k].time.t = "num"
             /\ cleanData[k].time.v > 0
             /\ cleanData[k].time.v <= MaxTimestamp
        ELSE cleanData[k].time.t = "datestr"

AuditFailures == {"error", "nobody"}

\* C7: every failure of an audit request (connection error, error response,
\* response without a body) ends in a visible error verdict: in the step
\* in which askGemini finishes, aiVerdict is set, with verdict ERROR after a
\* failure, showAudit is true and aiLoading is false; aiLoading is never
\* left true without a request in flight.
C7_AuditFailureVisible ==
    /\ [](auditReq = NoRequest => aiLoading = FALSE)
    /\ [][(auditReq # NoRequest /\ auditReq' = NoRequest) =>
            /\ aiLoading' = FALSE
            /\ showAudit' = TRUE
            /\ aiVerdict' # NoVerdict
            /\ (auditDone' \in AuditFailures =>
                  aiVerdict'.verdict = "ERROR")]_vars

C7_Witness ==
    /\ auditDone = "error"
    /\ auditReq = NoRequest
    /\ aiVerdict.verdict = "ERROR"
    /\ showAudit
    /\ ~aiLoading

\* C8: during a scan every match the back end has found is in the client's
\* stock list as soon as no notification is in flight, before the scan has
\* finished with the remaining symbols.
C8_MatchesObservable ==
    (srvScan.active /\ scanConn \in {"pending", "open"} /\ scanChan = <<>>)
        => \A i \in 1..Len(srvScan.gems) : srvScan.gems[i] \in Range(stocks)

\* C1: chat history is kept per symbol: the list shown while a symbol is
\* selected and the history stored under titan_chat_<S> hold only messages
\* of that symbol's own conversation.
C1_HistoryPerSymbol ==
    /\ \A i \in 1..Len(messages) : messages[i].sym = chatSymbol
    /\ \A s \in ChatSymbols :
         \A i \in 1..Len(chatStore[s].messages) :
            chatStore[s].messages[i].sym = s

\* C9: the text of the AI message appended for a streamed reply is the
\* in-order concatenation of the texts of the data events sent before the
\* end marker, however the stream was split into reads.
C9_StreamedReplyComplete ==
    \A i \in 1..Len(messages) :
       (messages[i].type = "ai" /\ ~chatReqs[messages[i].req].streamFailed)
          => messages[i].text = Concat(chatReqs[messages[i].req].events)

\* C10: a stream request that fails or is answered with a status that is
\* not OK, and was not aborted, leads to exactly one /api/chat request with
\* the same symbol and question (and no other request does); exactly one AI
\* message is appended for it, the reply or an error-flagged message, and
\* in the step that appends it loading becomes false.
C10_FallbackOnce ==
    /\ [](\A id \in DOMAIN chatReqs :
            LET r == chatReqs[id] IN
            /\ (r.streamFailed /\ InFlight(r)) =>
                 r.posted = <<[symbol |-> r.sym, question |-> r.question]>>
            /\ r.streamFailed => Len(r.posted) = 1
            /\ ~r.streamFailed => r.posted = <<>>
            /\ r.phase = "fallback_pending" => r.appended = 0
            /\ r.phase = "done" => r.appended = 1)
    /\ [][\A id \in DOMAIN chatReqs :
            (chatReqs[id].phase = "fallback_pending"
               /\ chatReqs'[id].phase = "done")
            => /\ chatLoading' = FALSE
               /\ Len(messages') = Len(messages) + 1
               /\ SubSeq(messages', 1, Len(messages)) = messages
               /\ messages'[Len(messages')].type = "ai"
               /\ messages'[Len(messages')].req = id]_vars

C10_Witness ==
    \E id \in DOMAIN chatReqs :
       /\ chatReqs[id].streamFailed
       /\ chatReqs[id].phase = "done"
       /\ ~chatLoading
       /\ \E i \in 1..Len(messages) :
            /\ messages[i].req = id
            /\ messages[i].type = "ai"
            /\ messages[i].error

\* C11: a click on a suggested question while no request is in flight sends
\* that question: when the handleSend the click scheduled runs (nothing
\* else having been sent meanwhile), a user message with exactly the
\* question is appended and a request for the question is issued.
C11_SuggestionSent ==
    [][(/\ sendTimers # <<>>
        /\ sendTimers' = Tail(sendTimers)
        /\ ~chatLoading
        /\ \A id \in DOMAIN chatReqs : ~InFlight(chatReqs[id]))
       => \E id \in DOMAIN chatReqs :
             /\ chatReqs[id].phase = "unused"
             /\ chatReqs'[id].phase = "stream_pending"
             /\ chatReqs'[id].question \in SuggestedQuestions
             /\ Len(messages') = Len(messages) + 1
             /\ messages'[Len(messages')].type = "user"
             /\ messages'[Len(messages')].text = chatReqs'[id].question]_vars

\* C12: Retry on an error-flagged AI message removes that message and
\* schedules a new send of the user question before it: for every displayed
\* error reply, handleRetry of its index leaves the list without it and
\* adds a pending handleSend.
C12_RetryResends ==
    \A index \in DOMAIN messages :
        (messages[index].type = "ai" /\ messages[index].error)
            => /\ RetryMessages(index) = RemoveAt(messages, index)
               /\ Len(RetryTimers(index)) = Len(sendTimers) + 1

\* C13: the history stored for a symbol never holds more than 50 messages,
\* and every save writes the last 50 messages, in their order, of the list
\* displayed when the save effect ran.
C13_StoredHistoryCapped ==
    /\ [](\A s \in ChatSymbols : Len(chatStore[s].messages) <= HistoryCap)
    /\ [][\A s \in ChatSymbols :
            (chatStore'[s] # chatStore[s] /\ chatStore'[s].present)
                => chatStore'[s].messages \in
                     {LastN(messages', HistoryCap),
                      LastN(messages, HistoryCap)}]_vars

\* a list longer than the cap was saved
C13_Witness ==
    /\ Len(messages) > HistoryCap
    /\ messages[Len(messages)].req > 0
    /\ chatStore[chatSymbol].messages = LastN(messages, HistoryCap)
    /\ chatStore[chatSymbol].messages # messages

\* C14: the input history stored under a symbol holds only questions asked
\* while that symbol was selected: a write to it is for the selected symbol
\* and puts one question at the end of what was stored for that symbol.
C14_InputHistoryPerSymbol ==
    [][\A s \in ChatSymbols :
          inputStore'[s] # inputStore[s]
              => /\ s = chatSymbol
                 /\ \E question \in Inputs :
                       inputStore'[s] =
                         LastN(Append(inputStore[s], question),
                               InputHistoryCap)]_vars

\* C15: the input history, in memory and as stored, never has more than 10
\* entries and holds the most recently sent questions in send order: every
\* send puts its question at the end of the history and keeps the last 10.
C15_InputHistoryLastTen ==
    /\ [](/\ Len(inputHistory) <= InputHistoryCap
          /\ \A s \in ChatSymbols : Len(inputStore[s]) <= InputHistoryCap)
    /\ [][\A id \in DOMAIN chatReqs :
            (chatReqs[id].phase = "unused" /\ chatReqs'[id].phase # "unused")
                => /\ inputHistory' =
                        LastN(Append(inputHistory, chatReqs'[id].question),
                              InputHistoryCap)
                   /\ inputStore'[chatSymbol] = inputHistory']_vars

\* C16: when the symbol changes, the displayed list becomes exactly the
\* messages saved for the new symbol that are less than 7 days old at that
\* time, in their saved order.
C16_OldHistoryFiltered ==
    [][chatSymbol' # chatSymbol
         => messages' =
              SelectSeq(chatStore[chatSymbol'].messages,
                        LAMBDA msg : now - msg.timestamp < SevenDays)]_vars

\* a load kept the second saved message and dropped the first
C16_Witness ==
    /\ chatSymbol = Watchlist[2]
    /\ Len(messages) = 1
    /\ messages[1].req = 0 - 2
    /\ chatStore[chatSymbol].messages = messages

\* C17: while the dropdown is shown with at least one suggestion, the
\* highlight is an index of the list, and a press of ArrowDown or ArrowUp
\* in the input can only leave the dropdown as it is with the highlight
\* one down (at most the last) or one up (at least the first), whatever the
\* input history is.
C17_ArrowsNavigateDropdown ==
    (showSuggestions /\ Len(suggestions) > 0)
        => /\ selectedSuggestion \in 0..(Len(suggestions) - 1)
           /\ ~ENABLED (/\ HandleInputKeyDown({"ArrowDown"}, MaxSends)
                        /\ ~(/\ showSuggestions'
                             /\ suggestions' = suggestions
                             /\ selectedSuggestion' =
                                  IF selectedSuggestion + 1 < Len(suggestions)
                                  THEN selectedSuggestion + 1
                                  ELSE selectedSuggestion))
           /\ ~ENABLED (/\ HandleInputKeyDown({"ArrowUp"}, MaxSends)
                        /\ ~(/\ showSuggestions'
                             /\ suggestions' = suggestions
                             /\ selectedSuggestion' =
                                  IF selectedSuggestion > 0
                                  THEN selectedSuggestion - 1
                                  ELSE 0))

C19_StreamedScanTerminal ==
    /\ [][(/\ scanConn = "open"
           /\ scanChan # <<>>
           /\ Head(scanChan).type = "complete"
           /\ scanStatus' # scanStatus
           /\ scanStatus'.s # "Connection Error")
             => /\ scanConn' = "closed"
                /\ ~loading'
                /\ scanStatus' = Status("Scan Complete",
                                        Head(scanChan).gems_found,
                                        Head(scanChan).scanned)]_vars
    /\ [][(scanConn = "closed" /\ scanConn' = "closed")
             => (stocks' = stocks /\ scanProgress' = scanProgress)]_vars

\* a streamed scan that found a match has ended with its summary
C19_Witness ==
    /\ scanConn = "closed"
    /\ ~loading
    /\ scanStatus.s = "Scan Complete"
    /\ scanStatus.a = Len(stocks)
    /\ Len(stocks) > 0

\* C20: the evaluator reports a match exactly when the series has a latest
\* and a previous bar, the four indicators of the latest bar are defined,
\* and close > EMA_50 > EMA_200, 50 <= RSI <= 75, volume > 1.5 x average
\* volume and close > the previous bar's high all hold.
C20_MatchIffAllFourRules ==
    decision.made =>
        (decision.match <=>
            /\ Len(frames) >= 2
            /\ LET bar == frames[Len(frames)] IN
                 /\ bar.ema_50.defined /\ bar.ema_200.defined
                 /\ bar.rsi.defined /\ bar.avg_volume.defined
                 /\ bar.close > bar.ema_50.value
                 /\ bar.ema_50.value > bar.ema_200.value
                 /\ bar.rsi.value \in 50..75
                 /\ 2 * bar.volume > 3 * bar.avg_volume.value
                 /\ bar.close > frames[Len(frames) - 1].high)

\* a series with the RSI on the lower end of the band was decided a match
C20_Witness ==
    /\ decision.made
    /\ decision.match
    /\ frames[Len(frames)].rsi.value = 50

\* C21: a symbol whose fetch fails does not end the scan: every symbol
\* taken up, failed or not, is counted and (on the stream) announced by
\* exactly one progress notification with the count so far; the terminal
\* summary is emitted with all N symbols scanned; a failed symbol is not
\* among the matches.
C21_FailureDoesNotAbort ==
    /\ [][Len(srvScan'.failed) > Len(srvScan.failed)
            => /\ srvScan'.active
               /\ srvScan'.pos = srvScan.pos + 1
               /\ srvScan'.gems = srvScan.gems]_vars
    /\ [][(srvScan'.pos = srvScan.pos + 1 /\ appVariant = "stream")
            => LET new == SubSeq(scanChan', Len(scanChan) + 1,
                                 Len(scanChan'))
               IN /\ Cardinality({i \in DOMAIN new :
                                     new[i].type = "progress"}) = 1
                  /\ new[1].type = "progress"
                  /\ new[1].scanned = srvScan'.pos
                  /\ new[1].sym = Watchlist[srvScan'.pos]]_vars
    /\ [](\A i \in DOMAIN scanChan :
            scanChan[i].type = "complete"
                => scanChan[i].scanned = Len(Watchlist))
    /\ [](/\ Len(srvScan.gems) + Len(srvScan.failed) <= srvScan.pos
          /\ \A i \in DOMAIN srvScan.failed :
                srvScan.failed[i] \notin Range(srvScan.gems))

\* a scan whose first symbol failed went on, matched the second and
\* reported both as scanned
C21_Witness ==
    /\ srvScan.failed = <<Watchlist[1]>>
    /\ srvScan.gems = <<Watchlist[2]>>
    /\ scanStatus = Status("Scan Complete", 1, Len(Watchlist))
    /\ stocks = <<Watchlist[2]>>

\* C22: selectedStock is always null or an object that has a symbol,
\* whatever the order of stock clicks, timeframe changes, scan starts and
\* chart responses.
C22_SelectedStockHasSymbol ==
    selectedStock.kind = "obj" => selectedStock.symbol \in Range(Watchlist)

\* C23: once no chart request is outstanding, the chart data of the
\* selected stock is the data fetched for its symbol at the selected
\* timeframe.
C23_ChartDataOfSelection ==
    (/\ chartReqs = <<>>
     /\ selectedStock.kind = "obj"
     /\ selectedStock.symbol \in Range(Watchlist)
     /\ selectedStock.current_timeframe \in Timeframes)
        => /\ selectedStock.chart_data.sym = selectedStock.symbol
           /\ selectedStock.chart_data.interval = timeframe

\* C24: a verdict that is set while a stock is selected is the result of
\* an audit requested for that stock.
C24_VerdictOfSelection ==
    (/\ aiVerdict # NoVerdict
     /\ selectedStock.kind = "obj"
     /\ selectedStock.symbol \in Range(Watchlist))
        => aiVerdict.sym = selectedStock.symbol

\* C25: at most one chat request is outstanding (issued, not aborted and
\* not yet answered), and while one is outstanding loading is true and the
\* abort controller reference is set.
C25_OneRequestWhileLoading ==
    LET outstanding ==
          {id \in DOMAIN chatReqs :
              /\ InFlight(chatReqs[id])
              /\ ~(chatReqs[id].aborted
                     /\ chatReqs[id].phase \in {"stream_pending", "reading"})}
    IN /\ Cardinality(outstanding) <= 1
       /\ outstanding # {} => (chatLoading /\ abortControllerRef # 0)

\* C26: a deletion is durable: after a message of the displayed list is
\* deleted, the history stored for the symbol is the displayed list (its
\* last 50 messages), also when the list has become empty.
C26_DeletionStored ==
    [][(chatSymbol' = chatSymbol /\ Len(messages') = Len(messages) - 1)
         => chatStore'[chatSymbol].messages
              = LastN(messages', HistoryCap)]_vars

\* C27: Delete removes exactly the message of the row whose menu was used,
\* and a feedback item is recorded under the index of a message that
\* carries the feedback buttons (an AI message that is no error), also
\* while the search box hides some messages.
C27_ActsOnItsMessage ==
    [][/\ (messageMenuOpen # 0 /\ Len(messages') < Len(messages))
            => messages' = RemoveAt(messages, PositionOf(messageMenuOpen))
       /\ \A item \in feedbackStore' \ feedbackStore :
            /\ item.key.index \in DOMAIN messages
            /\ messages[item.key.index].type = "ai"
            /\ ~messages[item.key.index].error]_vars

\* C28: in the levels variant, when the component is mounted and no
\* initializeChart waits, every chart that exists (created and not removed)
\* was built from the current data and interval props.
C28_ChartOfLatestProps ==
    (chartVariant = "levels" /\ chartMounted /\ initTimers = <<>>)
        => \A i \in DOMAIN charts :
              ~charts[i].removed
                => /\ charts[i].data = chartData
                   /\ charts[i].interval = chartInterval

\* C29: in the indicator variant and in the draft of the levels variant,
\* every chart that was created and is not the one chartInstance refers to
\* has been removed, and after unmount every chart has been removed.
C29_OneChartAlive ==
    chartVariant \in {"indicator", "draft"}
        => \A i \in DOMAIN charts :
              (i # chartInstance \/ ~chartMounted) => charts[i].removed

\* C30: in the non-streaming scan, while no scan runs (loading is false and
\* stays false) scanStatus does not change: the final status of a finished
\* scan stays until the next scan is started.
C30_FinalStatusStays ==
    [][(appVariant = "bulk" /\ ~loading /\ ~loading')
         => scanStatus' = scanStatus]_vars

====
